---- MODULE Spec2Model ----
(***************************************************************************)
(* Staged quantitative signal pipeline of the FIA repository:              *)
(*   Stage 1 anomaly scoring   (brains/qb1/core.py, runners/stage1_runner) *)
(*   gate / admission control  (run_qb1, run_stage1)                       *)
(*   reconciliation            (brains/reconcile/core.py)                  *)
(*                                                                         *)
(* Floating point quantities are exact fixed-point integers:               *)
(*   relevance, risk           in units of 1/Unit      (1e-4)              *)
(*   raw confidence            in units of 1/(10*Unit) (1e-5)              *)
(*   returned confidence       in units of 1/1000                          *)
(*   z-scores, macro weights   in units of 1/Scale     (1e-2)              *)
(*   composite scores          in units of 1/Scale^2   (1e-4)              *)
(***************************************************************************)
EXTENDS Integers, Sequences, FiniteSets, TLC

VARIABLES
    reconciled,     \* the ReconcileOutput of the last reconcile() call
    scored,         \* build_stage1_signal: inputs and resulting Stage1Signal
    anomaly_io,     \* compute_price_anomaly / compute_simple_z: input and result
    trigger_context, \* the Stage 1 output (trigger_context.json) of the last
                    \* run_qb1 / run_stage1, and the number of runs so far
    deep_results,   \* the Stage 2 output (deep_results.json) of the last
                    \* Stage 2 run, and the number of Stage 2 runs so far
    qb2_io,         \* run_qb2 / merge_fundamentals: input and result
    cached_config,  \* fia.config_loader: the configuration source, the module
                    \* global _cached_config and the outcome of the last load
    usage_db,       \* the Supabase tables run_log, monthly_usage and
                    \* fly_reservations, and the last reconcile report
    migrations_db   \* the database run_migrations works on, and the position
                    \* of the running main()

vars == <<reconciled, scored, anomaly_io, trigger_context, deep_results, qb2_io,
          cached_config, usage_db, migrations_db>>

\* Python values that may or may not be numbers: a float, None, or a string
\* float() rejects
Num(n) == [kind |-> "float", val |-> n]

NoneVal == [kind |-> "None", val |-> 0]

NotNumeric == [kind |-> "str", val |-> 0]

IsNumber(x) == x.kind = "float"

\* the exception of a call that raised none
NoExc == "none"

\* the value of a result variable before the first call
NotCalled == [status |-> "not called"]

\* before any entry point has been called
Init ==
    /\ reconciled = NotCalled
    /\ scored = NotCalled
    /\ anomaly_io = NotCalled
    /\ trigger_context = NotCalled
    /\ deep_results = NotCalled
    /\ qb2_io = NotCalled
    /\ cached_config = NotCalled
    /\ usage_db = NotCalled
    /\ migrations_db = NotCalled

Abs(x) == IF x < 0 THEN -x ELSE x

Min(a, b) == IF a <= b THEN a ELSE b

Max(a, b) == IF a >= b THEN a ELSE b

\* n/d rounded to the nearest integer, exact ties to the even neighbour
\* (Python's round()); d > 0
RoundHalfEven(n, d) ==
    LET q == n \div d
        r == n % d
    IN  IF 2 * r < d THEN q
        ELSE IF 2 * r > d THEN q + 1
        ELSE IF q % 2 = 0 THEN q ELSE q + 1

(***************************************************************************)
(* AnomalyScorer, composite score: brains/qb1/core.py build_stage1_signal  *)
(***************************************************************************)

\* 1.0 for z-scores and macro weights; composite scores and the score
\* threshold are in units of 1/(Scale*Scale)
Scale == 100

\* the news weight 0.4, in tenths
NewsWeight == 4

ZValues == {-400, -300, -200, -150, -1, 0, 1, 150, 200, 300, 400}

\* compute_macro_weight returns a float clamped to [-2.0, 2.0]
MacroValues == {-200, -50, -10, 0, 10, 50, 200}

MaxNews == 3

NewsCounts == 0..MaxNews

SignalTickers == {"AAPL"}

\* np.sign(x)
NpSign(x) == IF x > 0 THEN 1 ELSE IF x < 0 THEN -1 ELSE 0

\* np.sign(base) without the replacement of a zero base
SignOfBase(base) == NpSign(base)

\* np.sign(base if base != 0 else 1.0)
SignOrOne(base) == NpSign(IF base # 0 THEN base ELSE Scale)

\* the news term added whatever the sign of the anomaly
ScoreUnsignedNews(z, macro_w, news_count) ==
    z * (Scale + Abs(macro_w)) + news_count * NewsWeight * ((Scale * Scale) \div 10)

\* score = base * (1.0 + abs(macro_w));
\* score = score + news_count * 0.4 * np.sign(base if base != 0 else 1.0)
Score(z, macro_w, news_count) ==
    LET base  == z
        score == base * (Scale + Abs(macro_w))
    IN  score + news_count * NewsWeight * ((Scale * Scale) \div 10) * SignOrOne(base)

\* trigger_thresholds.z_threshold when the configuration names none: 2.0
DefaultZThreshold == 2 * Scale

\* the z_threshold values configured
ZThresholds == {DefaultZThreshold, 3 * Scale}

\* a piece of the reason string: a fragment with the number it prints, or the
\* separator "; "
Fragment(name, n) == [text |-> name, val |-> n]

Separator == Fragment("; ", 0)

\* f"{x:.2f}" of a value held in 1/Scale: rounded half-even to 1/100
Format2f(x) == RoundHalfEven(x * 100, Scale)

\* the reason parts with the macro fragment from |macro_w| >= 0.1 on
ReasonPartsMacroAtThreshold(z, macro_w, news_count, z_threshold) ==
    (IF Abs(z) >= z_threshold THEN <<Fragment("price z=", Format2f(z))>> ELSE << >>)
    \o (IF news_count # 0 THEN <<Fragment(" recent news", news_count)>> ELSE << >>)
    \o (IF Abs(macro_w) * 10 >= Scale
        THEN <<Fragment("macro ", Format2f(macro_w))>> ELSE << >>)

\* reason_parts: the three appends in their order
ReasonParts(z, macro_w, news_count, z_threshold) ==
    (IF Abs(z) >= z_threshold THEN <<Fragment("price z=", Format2f(z))>> ELSE << >>)
    \o (IF news_count # 0 THEN <<Fragment(" recent news", news_count)>> ELSE << >>)
    \o (IF Abs(macro_w) * 10 > Scale
        THEN <<Fragment("macro ", Format2f(macro_w))>> ELSE << >>)

\* "; ".join(parts)
RECURSIVE JoinParts(_)
JoinParts(parts) ==
    IF Len(parts) <= 1 THEN parts
    ELSE <<Head(parts), Separator>> \o JoinParts(Tail(parts))

\* signal["reason"]
Reason(z, macro_w, news_count, z_threshold) ==
    LET reason_parts == ReasonParts(z, macro_w, news_count, z_threshold)
    IN  IF reason_parts # << >> THEN JoinParts(reason_parts)
        ELSE <<Fragment("no strong single reason", 0)>>

\* build_stage1_signal under a configured z_threshold: the signal, or the
\* error marker of the except branch, which has no reason
Stage1SignalWith(ticker, z, macro_w, news_count, failed, z_threshold) ==
    IF failed
    THEN [status |-> "error", ticker |-> ticker, z_score |-> 0, macro_weight |-> 0,
          news_count |-> 0, score |-> 0, z_threshold |-> z_threshold,
          reason |-> << >>]
    ELSE [status |-> "ok", ticker |-> ticker, z_score |-> z, macro_weight |-> macro_w,
          news_count |-> news_count, score |-> Score(z, macro_w, news_count),
          z_threshold |-> z_threshold,
          reason |-> Reason(z, macro_w, news_count, z_threshold)]

\* build_stage1_signal when the configuration names no z_threshold
Stage1Signal(ticker, z, macro_w, news_count, failed) ==
    Stage1SignalWith(ticker, z, macro_w, news_count, failed, DefaultZThreshold)

BuildStage1Signal ==
    /\ \E t \in SignalTickers, z \in ZValues, m \in MacroValues, n \in NewsCounts,
          failed \in BOOLEAN, zt \in ZThresholds :
           scored' = Stage1SignalWith(t, z, m, n, failed, zt)
    /\ UNCHANGED <<reconciled, anomaly_io, trigger_context, deep_results, qb2_io,
                 cached_config, usage_db, migrations_db>>

NextScore == BuildStage1Signal

SpecScore == Init /\ [][NextScore]_vars

\* C7: for every z_score, macro_weight and news_count >= 0 the score equals
\* z_score*(1 + |macro_weight|) + news_count*0.4*sign(z_score) with sign(0) = +1;
\* z_score=3.0, macro_weight=0.5, news_count=2 gives 5.3.
CompositeScoreFormula ==
    scored.status = "ok" =>
        /\ scored.score * 10 =
              scored.z_score * 10 * (Scale + Abs(scored.macro_weight))
                + scored.news_count * 4 * Scale * Scale
                    * (IF scored.z_score < 0 THEN -1 ELSE 1)
        /\ (scored.z_score = 300 /\ scored.macro_weight = 50 /\ scored.news_count = 2
               => scored.score = 53000)

\* a zero anomaly with news: the news term counts positively
CompositeScoreWitness ==
    /\ scored.status = "ok"
    /\ scored.z_score = 0
    /\ scored.news_count = 2
    /\ scored.score = 8000

\* C8: for two signals built with the same macro_weight and news_count and
\* z-scores |z1| <= |z2| (either sign, 0 included), |score(z1)| <= |score(z2)|.
ScoreMonotone ==
    [][(/\ scored.status = "ok"
        /\ scored'.status = "ok"
        /\ scored'.macro_weight = scored.macro_weight
        /\ scored'.news_count = scored.news_count
        /\ Abs(scored.z_score) <= Abs(scored'.z_score))
          => Abs(scored.score) <= Abs(scored'.score)]_vars

\* a small negative anomaly with news: the news term outweighs the anomaly
ScoreMonotoneWitness ==
    /\ scored.status = "ok"
    /\ scored.z_score = -1
    /\ scored.news_count = 3
    /\ scored.macro_weight = 50
    /\ scored.score < -12000

\* the fragments of a reason, separators left out
FragmentsOf(reason) ==
    [i \in 1..((Len(reason) + 1) \div 2) |-> reason[2 * i - 1]]

\* C21: the reason lists, in this order, the anomaly fragment iff |z_score| >=
\* z_threshold, the news fragment iff news_count is nonzero and the macro
\* fragment iff |macro_weight| > 0.1, joined with "; "; when none applies it
\* is exactly "no strong single reason".
ReasonString ==
    scored.status = "ok" =>
        LET hasZ     == Abs(scored.z_score) >= scored.z_threshold
            hasNews  == scored.news_count # 0
            hasMacro == Abs(scored.macro_weight) * 10 > Scale
            count    == (IF hasZ THEN 1 ELSE 0) + (IF hasNews THEN 1 ELSE 0)
                            + (IF hasMacro THEN 1 ELSE 0)
            frags    == FragmentsOf(scored.reason)
        IN  IF count = 0
            THEN scored.reason = <<Fragment("no strong single reason", 0)>>
            ELSE /\ Len(scored.reason) = 2 * count - 1
                 /\ \A i \in DOMAIN scored.reason :
                        (i % 2 = 0) <=> (scored.reason[i] = Separator)
                 /\ hasZ <=> Fragment("price z=", scored.z_score) \in
                                 {frags[i] : i \in DOMAIN frags}
                 /\ hasNews <=> Fragment(" recent news", scored.news_count) \in
                                    {frags[i] : i \in DOMAIN frags}
                 /\ hasMacro <=> Fragment("macro ", scored.macro_weight) \in
                                     {frags[i] : i \in DOMAIN frags}
                 /\ \A i, j \in DOMAIN frags :
                        (frags[i].text = "price z=" /\ frags[j].text # "price z=")
                            => i < j
                 /\ \A i, j \in DOMAIN frags :
                        (frags[i].text = "macro " /\ frags[j].text # "macro ")
                            => j < i

\* z exactly at the threshold and macro exactly at 0.1: the anomaly and the
\* news are named, the macro is not
ReasonStringWitness ==
    /\ scored.status = "ok"
    /\ scored.z_score = -200
    /\ scored.z_threshold = 200
    /\ scored.macro_weight = 10
    /\ scored.reason = <<Fragment("price z=", -200), Separator,
                         Fragment(" recent news", 2)>>

(***************************************************************************)
(* StatisticsKit / AnomalyScorer: compute_price_anomaly (brains/qb1) and   *)
(* compute_simple_z (stage2_service/brains/qb1)                            *)
(*                                                                         *)
(* A z-score (latest - mu)/sigma over n samples with sum S and sum of      *)
(* squares Q is kept exactly as num/sqrt(den2) with num = n*latest - S and *)
(* den2 = n*Q - S*S (n*n times the population variance).  A volatility     *)
(* sqrt(252)*std(returns) is kept by the exact sample variance of the      *)
(* returns, var_num/var_den.                                               *)
(***************************************************************************)

\* a close that is NaN
NaN == -1

\* the longest enumerated price history
MaxLen == 4

CloseValues == {NaN, 1, 2, 3}

\* price histories: every short one, and longer ones that fill a 10-sample
\* window or exceed it
Closes ==
    UNION {[1..n -> CloseValues] : n \in 0..MaxLen}
        \cup { <<100, 100, 100, 100, 100, 103>>,
               <<1, 1, 1, 1, 1, 1, 1, 1, 1, 2>>,
               <<2, 2, 2, 2, 2, 2, 2, 2, 2, 1>>,
               <<3, 1, 1, 1, 1, 1, 1, 1, 1, 1, 2>> }

\* history_df: None, a frame with a close column, or a frame without one
Histories ==
    {[kind |-> "None", close |-> << >>], [kind |-> "no_close", close |-> <<1, 2>>]}
        \cup {[kind |-> "df", close |-> c] : c \in Closes}

\* trigger_thresholds.anomaly_lookback, an unconstrained int (default 10)
Lookbacks == {-2, 0, 1, 2, 3, 5, 10}

IsNotNaN(x) == x # NaN

\* .dropna()
DropNa(values) == SelectSeq(values, IsNotNaN)

RECURSIVE Sum(_)
Sum(values) == IF values = << >> THEN 0 ELSE Head(values) + Sum(Tail(values))

RECURSIVE SumSq(_)
SumSq(values) ==
    IF values = << >> THEN 0 ELSE Head(values) * Head(values) + SumSq(Tail(values))

RECURSIVE Gcd(_, _)
Gcd(a, b) == IF b = 0 THEN a ELSE Gcd(b, a % b)

RECURSIVE Lcm(_)
Lcm(values) ==
    IF values = << >> THEN 1
    ELSE LET l == Lcm(Tail(values))
         IN  (Head(values) * l) \div Gcd(Head(values), l)

\* series[-k:] for k >= 1
LastK(series, k) == SubSeq(series, Max(0, Len(series) - k) + 1, Len(series))

\* series[k:] for k >= 0
FromK(series, k) == SubSeq(series, Min(Len(series), k) + 1, Len(series))

\* series[-lookback:]; -0 is 0, so a zero lookback slices from the start
MinusLookbackSlice(series, lookback) ==
    IF lookback > 0 THEN LastK(series, lookback) ELSE FromK(series, -lookback)

ZeroZ == [num |-> 0, den2 |-> 1]

\* n*n times the population variance (ddof=0) of a window
PopVarTimesN2(window) == Len(window) * SumSq(window) - Sum(window) * Sum(window)

\* (latest - mu) / sigma of a window with sigma > 0
ZOfWindow(window) ==
    [num |-> Len(window) * window[Len(window)] - Sum(window),
     den2 |-> PopVarTimesN2(window)]

\* series.pct_change().dropna(), each return times Lcm of the denominators
ScaledReturns(series) ==
    LET l == Lcm(SubSeq(series, 1, Len(series) - 1))
    IN  [i \in 1..(Len(series) - 1) |->
            ((series[i + 1] - series[i]) * l) \div series[i]]

ZeroVol == [kind |-> "float", var_num |-> 0, var_den |-> 1]

NaNVol == [kind |-> "nan", var_num |-> 0, var_den |-> 1]

\* float(np.sqrt(252) * returns.std()) if not returns.empty else 0.0;
\* returns.std() is the sample deviation (ddof=1), NaN for a single return
Volatility(series) ==
    IF Len(series) <= 1 THEN ZeroVol
    ELSE IF Len(series) = 2 THEN NaNVol
    ELSE LET r == ScaledReturns(series)
             m == Len(r)
             l == Lcm(SubSeq(series, 1, Len(series) - 1))
             d == m * SumSq(r) - Sum(r) * Sum(r)
         IN  IF d = 0 THEN ZeroVol
             ELSE [kind |-> "float", var_num |-> d, var_den |-> m * (m - 1) * l * l]

\* a neutral default whose volatility is left undefined
UndefinedAnomaly == [z_score |-> ZeroZ, volatility |-> NaNVol, n_points |-> 0]

\* {"z_score": 0.0, "volatility": 0.0, "n_points": 0}
ZeroAnomaly == [z_score |-> ZeroZ, volatility |-> ZeroVol, n_points |-> 0]

\* the return path compute_price_anomaly takes
AnomalyPath(history_df, lookback) ==
    IF history_df.kind = "None" \/ (history_df.kind = "df" /\ history_df.close = << >>)
    THEN "empty frame"
    ELSE IF history_df.kind = "no_close" THEN "except"
    ELSE IF DropNa(history_df.close) = << >> THEN "empty series"
    ELSE IF MinusLookbackSlice(DropNa(history_df.close), lookback) = << >> THEN "except"
    ELSE "computed"

\* compute_price_anomaly(history_df, config)
compute_price_anomaly(history_df, lookback) ==
    IF AnomalyPath(history_df, lookback) # "computed" THEN ZeroAnomaly
    ELSE LET series == DropNa(history_df.close)
             recent == MinusLookbackSlice(series, lookback)
             sigma2 == IF Len(recent) > 1 THEN PopVarTimesN2(recent) ELSE 0
             z      == IF sigma2 > 0 THEN ZOfWindow(recent) ELSE ZeroZ
         IN  [z_score |-> z, volatility |-> Volatility(series), n_points |-> Len(series)]

\* the window length of compute_simple_z
SimpleZWindow == 10

\* the fewest closes compute_simple_z works on
SimpleZMinPoints == 3

\* compute_simple_z(df)
compute_simple_z(df) ==
    IF df.kind # "df" THEN ZeroZ
    ELSE LET close == DropNa(df.close)
         IN  IF Len(close) < SimpleZMinPoints THEN ZeroZ
             ELSE LET series == LastK(close, SimpleZWindow)
                      sigma2 == IF Len(series) > 1 THEN PopVarTimesN2(series) ELSE 0
                  IN  IF sigma2 = 0 THEN ZeroZ ELSE ZOfWindow(series)

\* float(z) at the resolution 1/Scale, truncated towards zero
ZCenti(z) ==
    LET k == CHOOSE k \in 0..(4 * Scale) :
                 /\ k * k * z.den2 <= Scale * Scale * z.num * z.num
                 /\ Scale * Scale * z.num * z.num < (k + 1) * (k + 1) * z.den2
    IN  IF z.num < 0 THEN -k ELSE k

(***************************************************************************)
(* GateController in run_qb1: brains/qb1/core.py                           *)
(***************************************************************************)

\* the number of Stage 1 runs the model follows
MaxRuns == 2

\* the universe rows; a row without a ticker is skipped
Qb1Universe ==
    <<[ticker |-> "AAPL"], [ticker |-> "SPY"], [ticker |-> ""], [ticker |-> "MSFT"]>>

Qb1Universes == {<< >>, Qb1Universe}

\* what the collaborators return for one ticker: the anomaly z-score, the macro
\* weight, the news count, or an unexpected exception
Fetched(z, m, n, failed) == [z |-> z, macro_w |-> m, news_count |-> n, failed |-> failed]

Qb1Inputs ==
    { Fetched(0, 0, 0, FALSE), Fetched(300, 50, 2, FALSE), Fetched(-200, 0, 0, FALSE),
      Fetched(150, 0, 1, FALSE), Fetched(0, 0, 0, TRUE) }

\* trigger_thresholds.score (default 2.0) and run_settings.dry_limit
Qb1Configs ==
    { [score |-> t, dry_limit |-> d] : t \in {0, 20000, 53000}, d \in {0, 2} }

\* _tag_for_zscore
TagForZscore(z) ==
    IF z >= 4 * Scale THEN "extreme-up"
    ELSE IF z >= 2 * Scale THEN "strong-up"
    ELSE IF z >= Scale THEN "moderate-up"
    ELSE IF z <= -4 * Scale THEN "extreme-down"
    ELSE IF z <= -2 * Scale THEN "strong-down"
    ELSE IF z <= -Scale THEN "moderate-down"
    ELSE "neutral"

\* _tag_for_macro
TagForMacro(w) ==
    IF w > Scale THEN "macro-supportive"
    ELSE IF w * 5 > Scale THEN "macro-positive"
    ELSE IF w < -Scale THEN "macro-headwind"
    ELSE IF w * 5 < -Scale THEN "macro-negative"
    ELSE "macro-neutral"

\* _tag_for_news
TagForNews(count) ==
    IF count >= 5 THEN "heavy-news"
    ELSE IF count >= 2 THEN "moderate-news"
    ELSE IF count = 1 THEN "single-news"
    ELSE "no-news"

\* the NB1 object attach_nb1 builds; z, macro_w and news_count are read with
\* .get and the defaults 0.0, 0.0 and 0, which are the values an error marker
\* carries here (the volatility driver is not kept in the signal records)
Nb1Object(signal) ==
    LET z          == signal.z_score
        macro_w    == signal.macro_weight
        news_count == signal.news_count
        sentence_2 ==
            (IF macro_w > 0 THEN <<Fragment("macro support", Format2f(macro_w))>>
             ELSE IF macro_w < 0 THEN <<Fragment("macro headwind", Format2f(macro_w))>>
             ELSE << >>)
            \o (IF news_count > 0 THEN <<Fragment("recent news", news_count)>>
                ELSE << >>)
    IN  [summary |-> [ticker |-> signal.ticker,
                      direction |-> IF z > 0 THEN "up" ELSE "down",
                      z |-> Format2f(z)],
         tags |-> <<TagForZscore(z), TagForMacro(macro_w), TagForNews(news_count)>>,
         drivers |-> [price_anomaly |-> z, macro_weight |-> macro_w,
                      news_count |-> news_count],
         narrative |-> <<Fragment(TagForZscore(z), Format2f(z))>> \o sentence_2]

\* an attachment that also rewrites the score from the narrative's drivers
Nb1AssignedWithScore(signal) ==
    [nb1 |-> Nb1Object(signal), score |-> Nb1Object(signal).drivers.price_anomaly * Scale]

\* the keys attach_nb1 assigns: signal["nb1"] only
Nb1Assigned(signal) == [nb1 |-> Nb1Object(signal)]

\* a dict after the assignments; `exc` is the exception the call raised
Assigned(signal, assigned, exc) ==
    [k \in DOMAIN signal \cup DOMAIN assigned \cup {"exc"} |->
        IF k = "exc" THEN exc
        ELSE IF k \in DOMAIN assigned THEN assigned[k]
        ELSE signal[k]]

\* attach_nb1 reading the anomaly by subscript: KeyError on an error marker,
\* which has no 'anomaly' key
AttachNb1Subscript(signal) ==
    Assigned(signal, Nb1Assigned(signal),
             IF signal.status = "error" THEN "KeyError" ELSE NoExc)

\* attach_nb1: the signal with the added 'nb1' field; nothing is raised
AttachNb1(signal) == Assigned(signal, Nb1Assigned(signal), NoExc)

\* the loop over the universe: one signal per processed row, in universe order
RECURSIVE Qb1Signals(_, _, _, _, _)
Qb1Signals(universe, inputs, dry_limit, i, processed) ==
    IF i > Len(universe) THEN << >>
    ELSE IF dry_limit # 0 /\ processed >= dry_limit THEN << >>
    ELSE IF universe[i].ticker = ""
         THEN Qb1Signals(universe, inputs, dry_limit, i + 1, processed)
    ELSE <<AttachNb1(Stage1Signal(universe[i].ticker, inputs[i].z, inputs[i].macro_w,
                                  inputs[i].news_count, inputs[i].failed))>>
            \o Qb1Signals(universe, inputs, dry_limit, i + 1, processed + 1)

\* the threshold test without the equality case
PassesThresholdStrict(s, score_threshold) == Abs(s.score) > score_threshold

\* abs(score) >= score_threshold
PassesThreshold(s, score_threshold) == Abs(s.score) >= score_threshold

\* triggers = [], then every signal that passes the threshold, in order
Qb1Triggers(signals, score_threshold) ==
    LET Test(s) == PassesThreshold(s, score_threshold)
    IN  SelectSeq(signals, Test)

\* the exception an attach_nb1 call let through, if any
Qb1Raised(signals) ==
    IF \E i \in DOMAIN signals : signals[i].exc # NoExc THEN "KeyError" ELSE NoExc

\* a run whose triggers list is not started empty
Qb1OutputKeepsTriggers(prev, universe, config, inputs) ==
    LET signals == Qb1Signals(universe, inputs, config.dry_limit, 1, 0)
        runs    == IF prev.status = "not called" THEN 1 ELSE prev.runs + 1
        old     == IF prev.status = "not called" THEN << >> ELSE prev.triggers
    IN  [status |-> "done", source |-> "run_qb1", runs |-> runs, config |-> config,
         universe |-> universe, inputs |-> inputs,
         universe_count |-> Len(universe), has_triggers |-> universe # << >>,
         signals |-> signals,
         triggers |-> old \o Qb1Triggers(signals, config.score),
         processed |-> Len(signals)]

\* run_qb1: the returned dict, or the exception that ended the run; `prev` is
\* the previous Stage 1 output, of which only the run count is carried over
Qb1Output(prev, universe, config, inputs) ==
    LET signals == Qb1Signals(universe, inputs, config.dry_limit, 1, 0)
        runs    == IF prev.status = "not called" THEN 1 ELSE prev.runs + 1
    IN  IF universe = << >>
        THEN [status |-> "done", source |-> "run_qb1", runs |-> runs, config |-> config,
              universe |-> universe, inputs |-> inputs,
              universe_count |-> 0, has_triggers |-> FALSE,
              signals |-> << >>, triggers |-> << >>, processed |-> 0]
        ELSE IF Qb1Raised(signals) # NoExc
        THEN [status |-> "raised", source |-> "run_qb1", runs |-> runs, config |-> config,
              universe |-> universe, inputs |-> inputs,
              universe_count |-> Len(universe), has_triggers |-> FALSE,
              signals |-> << >>, triggers |-> << >>, processed |-> 0]
        ELSE [status |-> "done", source |-> "run_qb1", runs |-> runs, config |-> config,
              universe |-> universe, inputs |-> inputs,
              universe_count |-> Len(universe), has_triggers |-> TRUE,
              signals |-> signals,
              triggers |-> Qb1Triggers(signals, config.score),
              processed |-> Len(signals)]

Runs == IF trigger_context.status = "not called" THEN 0 ELSE trigger_context.runs

DefaultFetched == Fetched(0, 0, 0, FALSE)

RunQb1 ==
    /\ Runs < MaxRuns
    /\ \E universe \in Qb1Universes, config \in Qb1Configs :
         \E inputs \in [1..Len(universe) -> Qb1Inputs] :
           /\ \A i \in 1..Len(universe) :
                  universe[i].ticker = "" => inputs[i] = DefaultFetched
           /\ trigger_context' = Qb1Output(trigger_context, universe, config, inputs)
    /\ UNCHANGED <<reconciled, scored, anomaly_io, deep_results, qb2_io,
                 cached_config, usage_db, migrations_db>>

(***************************************************************************)
(* GateController in run_stage1: runners/stage1_runner.py                  *)
(***************************************************************************)

\* the tickers analysed, in universe order (a prefix of DEFAULT_UNIVERSE)
DEFAULT_UNIVERSE == <<"AAPL", "SPY", "QQQ">>

\* the tickers in ascending lexical order
LexicalOrder == <<"AAPL", "MSFT", "QQQ", "SPY", "TSLA">>

\* what compute_zscore returns for the fetched closes: a z-score (1/Scale) or None
Stage1ZScores == {NoneVal} \cup {Num(z) : z \in {0, 120, 300, -350, 600}}

\* trigger_thresholds: signal_score_min (1/1000), zscore_abs_min (1/Scale),
\* max_signals_per_run
Stage1Thresholds ==
    { [signal_score_min |-> 100, zscore_abs_min |-> 100, max_signals_per_run |-> n] :
          n \in {0, 1, 2} }

\* severity_from_z, in thousandths
severity_from_z(z) ==
    IF z.kind = "None" THEN NoneVal
    ELSE LET mag == Abs(z.val)
         IN  IF mag <= 50
             THEN Num(RoundHalfEven(Min(6 * Scale, mag) * 10, 6))
             ELSE IF mag <= 300
             THEN Num(RoundHalfEven(Min(1000 * 5, 100 * 5 + (mag - 50) * 10), 5))
             ELSE Num(RoundHalfEven(Min(1000 * 1000, 500 * 1000 + (mag - 300) * 833), 1000))

\* s_key: the severity, None treated as 0
s_key(x) == IF x.severity.kind = "None" THEN 0 ELSE x.severity.val

\* x put behind every element whose key is at least its own
InsertBySeverity(sorted, x) ==
    LET k == Cardinality({i \in DOMAIN sorted : s_key(sorted[i]) >= s_key(x)})
    IN  SubSeq(sorted, 1, k) \o <<x>> \o SubSeq(sorted, k + 1, Len(sorted))

\* sorted(signals, key=s_key, reverse=True): descending and stable
RECURSIVE SortedBySeverity(_)
SortedBySeverity(signals) ==
    IF signals = << >> THEN << >>
    ELSE InsertBySeverity(SortedBySeverity(SubSeq(signals, 1, Len(signals) - 1)),
                          signals[Len(signals)])

\* analyze_universe: one signal per ticker, sorted by severity
analyze_universe(tickers, zscores) ==
    SortedBySeverity([i \in 1..Len(tickers) |->
        [ticker |-> tickers[i], zscore |-> zscores[i],
         severity |-> severity_from_z(zscores[i])]])

\* the filter loop of run_stage1 from position i on, `filtered` so far
RECURSIVE FilterSignals(_, _, _, _)
FilterSignals(signals, thresholds, i, filtered) ==
    IF i > Len(signals) THEN filtered
    ELSE LET s == signals[i]
         IN  IF s.severity.kind = "None" \/ s.zscore.kind = "None"
             THEN FilterSignals(signals, thresholds, i + 1, filtered)
             ELSE LET kept ==
                          IF /\ s.severity.val >= thresholds.signal_score_min
                             /\ Abs(s.zscore.val) >= thresholds.zscore_abs_min
                          THEN Append(filtered, s)
                          ELSE filtered
                  IN  IF Len(kept) >= thresholds.max_signals_per_run
                      THEN kept
                      ELSE FilterSignals(signals, thresholds, i + 1, kept)

\* run_stage1: the artifact; `prev` is the previous Stage 1 output, of which
\* only the run count is carried over
Stage1Artifact(prev, thresholds, zscores) ==
    LET signals == analyze_universe(DEFAULT_UNIVERSE, zscores)
        runs    == IF prev.status = "not called" THEN 1 ELSE prev.runs + 1
    IN  [status |-> "done", source |-> "run_stage1", runs |-> runs,
         config |-> thresholds, universe |-> DEFAULT_UNIVERSE,
         signals |-> signals,
         top_signals |-> FilterSignals(signals, thresholds, 1, << >>)]

RunStage1 ==
    /\ Runs < MaxRuns
    /\ \E thresholds \in Stage1Thresholds :
         \E zscores \in [1..Len(DEFAULT_UNIVERSE) -> Stage1ZScores] :
           trigger_context' = Stage1Artifact(trigger_context, thresholds, zscores)
    /\ UNCHANGED <<reconciled, scored, anomaly_io, deep_results, qb2_io,
                 cached_config, usage_db, migrations_db>>

NextGate == RunQb1 \/ RunStage1

SpecGate == Init /\ [][NextGate]_vars

FromQb1 == trigger_context.status = "done" /\ trigger_context.source = "run_qb1"

\* the positions of `seq` whose element equals x
Positions(seq, x) == {i \in DOMAIN seq : seq[i] = x}

\* C1: a signal is in run_qb1's triggers iff |score| >= score_threshold: no
\* signal below the threshold is admitted, none at or above it is left out.
GateAdmissionRule ==
    (FromQb1 /\ trigger_context.has_triggers) =>
        LET sigs == trigger_context.signals
            trig == trigger_context.triggers
            thr  == trigger_context.config.score
        IN  /\ \A j \in DOMAIN trig :
                  /\ Abs(trig[j].score) >= thr
                  /\ \E i \in DOMAIN sigs : sigs[i] = trig[j]
            /\ \A i \in DOMAIN sigs :
                  Abs(sigs[i].score) >= thr
                      => Cardinality(Positions(trig, sigs[i]))
                             = Cardinality(Positions(sigs, sigs[i]))
            /\ \A i \in DOMAIN sigs :
                  Abs(sigs[i].score) < thr => Positions(trig, sigs[i]) = {}

\* a signal exactly at the threshold (score -2.0, threshold 2.0) is admitted
\* while one just below it (1.9) is left out
GateAdmissionWitness ==
    /\ FromQb1
    /\ trigger_context.config.score = 20000
    /\ \E j \in DOMAIN trigger_context.triggers :
           trigger_context.triggers[j].score = -20000
    /\ \E i \in DOMAIN trigger_context.signals :
           /\ trigger_context.signals[i].score = 19000
           /\ Positions(trigger_context.triggers, trigger_context.signals[i]) = {}

\* the universe rows run_qb1 started to process: those with a ticker, up to
\* dry_limit of them when a limit is set
StartedRows(universe, dry_limit) ==
    {i \in DOMAIN universe :
        /\ universe[i].ticker # ""
        /\ \/ dry_limit = 0
           \/ Cardinality({j \in 1..(i - 1) : universe[j].ticker # ""}) < dry_limit}

\* C12: run_qb1 emits exactly one signal record for every universe entry it
\* started processing, in universe order; a ticker whose processing raised gets
\* an explicit error marker, every later ticker is still processed, and the run
\* completes without raising.
FailureIsolated ==
    (trigger_context.status # "not called" /\ trigger_context.source = "run_qb1") =>
        LET u       == trigger_context.universe
            started == StartedRows(u, trigger_context.config.dry_limit)
            sigs    == trigger_context.signals
        IN  /\ trigger_context.status = "done"
            /\ Len(sigs) = Cardinality(started)
            /\ \A i \in started :
                   LET k == Cardinality({j \in started : j <= i})
                   IN  /\ sigs[k].ticker = u[i].ticker
                       /\ (sigs[k].status = "error") = trigger_context.inputs[i].failed
                       /\ (sigs[k].status = "ok") = ~trigger_context.inputs[i].failed

\* the first ticker failed; the two after it were still scored
FailureIsolatedWitness ==
    /\ FromQb1
    /\ Len(trigger_context.signals) = 3
    /\ trigger_context.signals[1].status = "error"
    /\ trigger_context.signals[2].status = "ok"
    /\ trigger_context.signals[3].status = "ok"
    /\ trigger_context.signals[3].score = 53000

\* what build_stage1_signal returned for universe row i of the last run_qb1
BuiltSignal(i) ==
    Stage1Signal(trigger_context.universe[i].ticker, trigger_context.inputs[i].z,
                 trigger_context.inputs[i].macro_w,
                 trigger_context.inputs[i].news_count,
                 trigger_context.inputs[i].failed)

\* C22: attach_nb1 leaves every field of a Stage 1 signal as
\* build_stage1_signal returned it and only adds 'nb1'; the gate decision on
\* the signal with the narrative equals the decision on the signal without it.
NarrativeAdditive ==
    FromQb1 =>
        LET started == StartedRows(trigger_context.universe,
                                   trigger_context.config.dry_limit)
            sigs    == trigger_context.signals
        IN  \A i \in started :
                LET k     == Cardinality({j \in started : j <= i})
                    built == BuiltSignal(i)
                IN  /\ k \in DOMAIN sigs
                    /\ DOMAIN sigs[k] \ {"exc"} = DOMAIN built \cup {"nb1"}
                    /\ \A f \in DOMAIN built : sigs[k][f] = built[f]
                    /\ (sigs[k] \in {trigger_context.triggers[t] :
                                        t \in DOMAIN trigger_context.triggers})
                           = PassesThreshold(built, trigger_context.config.score)

\* a signal with a narrative of three sentences' fragments was admitted on its
\* unchanged score
NarrativeAdditiveWitness ==
    /\ FromQb1
    /\ Len(trigger_context.triggers) >= 1
    /\ Len(trigger_context.triggers[1].nb1.narrative) = 3
    /\ trigger_context.triggers[1].score = 53000
    /\ trigger_context.triggers[1].reason # << >>

FromStage1 == trigger_context.status = "done" /\ trigger_context.source = "run_stage1"

LexRank(t) == CHOOSE i \in DOMAIN LexicalOrder : LexicalOrder[i] = t

\* a ranks before b: larger |zscore| first, ties by ascending ticker
RanksBefore(a, b) ==
    \/ Abs(a.zscore.val) > Abs(b.zscore.val)
    \/ Abs(a.zscore.val) = Abs(b.zscore.val) /\ LexRank(a.ticker) < LexRank(b.ticker)

\* the signals that pass the thresholds of run_stage1
Candidates(signals, thresholds) ==
    { s \in {signals[i] : i \in DOMAIN signals} :
          /\ s.zscore.kind = "float"
          /\ s.severity.kind = "float"
          /\ s.severity.val >= thresholds.signal_score_min
          /\ Abs(s.zscore.val) >= thresholds.zscore_abs_min }

\* C2: with a maximum count N the admitted subset is exactly the N candidates
\* with the largest |score|, in |score|-descending order with ties broken by
\* ascending ticker; no candidate is admitted while one with a strictly larger
\* |score| is left out.
GateCapTopN ==
    (FromStage1 /\ trigger_context.config.max_signals_per_run >= 1) =>
        LET top   == trigger_context.top_signals
            cands == Candidates(trigger_context.signals, trigger_context.config)
            N     == trigger_context.config.max_signals_per_run
            adm   == {top[j] : j \in DOMAIN top}
        IN  /\ Len(top) = Min(N, Cardinality(cands))
            /\ adm \subseteq cands
            /\ \A j, k \in DOMAIN top : j < k => RanksBefore(top[j], top[k])
            /\ \A a \in adm : \A c \in cands \ adm :
                   Abs(c.zscore.val) <= Abs(a.zscore.val)

ScoredSignals ==
    IF FromStage1
    THEN {trigger_context.signals[i] : i \in
             {j \in DOMAIN trigger_context.signals :
                  trigger_context.signals[j].zscore.kind = "float"}}
    ELSE {}

\* C25: severity_from_z maps z = 0 to severity 0, |z| = 3 to 0.6 and |z| = 6
\* to 1.0.
SeverityAnchors ==
    \A s \in ScoredSignals :
        /\ s.zscore.val = 0 => s.severity = Num(0)
        /\ Abs(s.zscore.val) = 3 * Scale => s.severity = Num(600)
        /\ Abs(s.zscore.val) = 6 * Scale => s.severity = Num(1000)

\* C26: for z-scores with |z1| <= |z2| the severities satisfy sev(z1) <=
\* sev(z2) and lie in [0, 1]; the severity-descending order of
\* analyze_universe never ranks a smaller |zscore| ahead of a larger one.
SeverityMonotone ==
    /\ \A s \in ScoredSignals : s.severity.val \in 0..1000
    /\ \A s1, s2 \in ScoredSignals :
           Abs(s1.zscore.val) <= Abs(s2.zscore.val) => s1.severity.val <= s2.severity.val
    /\ FromStage1 =>
           \A i, j \in DOMAIN trigger_context.signals :
               (/\ i < j
                /\ trigger_context.signals[i].zscore.kind = "float"
                /\ trigger_context.signals[j].zscore.kind = "float")
                   => Abs(trigger_context.signals[i].zscore.val)
                          >= Abs(trigger_context.signals[j].zscore.val)

\* C27: for every max_signals_per_run >= 0, 0 included, run_stage1's
\* top_signals has at most max_signals_per_run entries, every entry has a
\* zscore and a severity with severity >= signal_score_min and |zscore| >=
\* zscore_abs_min, and a ticker with an undefined z-score is never admitted.
AdmissionCapBound ==
    FromStage1 =>
        LET top == trigger_context.top_signals
            cfg == trigger_context.config
        IN  /\ cfg.max_signals_per_run >= 0 => Len(top) <= cfg.max_signals_per_run
            /\ \A i \in DOMAIN top :
                   /\ top[i].zscore.kind = "float"
                   /\ top[i].severity.kind = "float"
                   /\ top[i].severity.val >= cfg.signal_score_min
                   /\ Abs(top[i].zscore.val) >= cfg.zscore_abs_min
            /\ \A i \in DOMAIN trigger_context.signals :
                   trigger_context.signals[i].zscore.kind = "None" =>
                       \A k \in DOMAIN top :
                           top[k].ticker # trigger_context.signals[i].ticker

(***************************************************************************)
(* Stage 2: run_stage2 of runners/stage2_runner.py and main of             *)
(* stage2_service/runners/stage2_runner.py, both reading the Stage 1       *)
(* artifact trigger_context.json and writing deep_results.json             *)
(***************************************************************************)

\* Stage 2 runs explored
MaxStage2Runs == 2

Stage2Runs == IF deep_results.status = "not called" THEN 0 ELSE deep_results.runs

\* trigger_context.json is on disk once a Stage 1 run has written it
ArtifactExists(s1) == s1.status = "done"

\* s1.get("top_signals", []): only run_stage1 writes that key
TopSignalsOf(s1) == IF s1.source = "run_stage1" THEN s1.top_signals ELSE << >>

\* ctx.get("signals", []): only run_qb1 writes that key
SignalsOf(ctx) == IF ctx.source = "run_qb1" THEN ctx.signals ELSE << >>

\* the narrative deep_narrative_analysis picks for a signal
NarrativeOf(signal) ==
    IF signal.zscore.kind = "None" \/ signal.severity.kind = "None"
    THEN "insufficient data"
    ELSE IF Abs(signal.zscore.val) >= 3 * Scale THEN "major anomaly"
    ELSE IF Abs(signal.zscore.val) >= 2 * Scale THEN "moderate anomaly"
    ELSE "mild anomaly"

\* {**deep_quant_analysis(signal), **deep_narrative_analysis(signal)}; the
\* window strengths and the risk rating in thousandths
DeepAnalysis(signal) ==
    LET mag == IF signal.zscore.kind = "None" THEN 0 ELSE Abs(signal.zscore.val)
    IN  [ticker |-> signal.ticker, zscore |-> signal.zscore,
         severity |-> signal.severity,
         multi_window_strength |->
             [long |-> mag * 7, medium |-> mag * 5, short |-> mag * 3],
         risk_rating |-> Min(1000, mag * 2),
         narrative |-> NarrativeOf(signal)]

\* the previous content of deep_results.json
PrevResults(prev) == IF prev.status = "not called" THEN << >> ELSE prev.results

\* run_stage2: the artifact written, or FileNotFoundError from
\* load_stage1_artifact with deep_results.json left as it was
Stage2Artifact(prev, s1) ==
    LET runs    == IF prev.status = "not called" THEN 1 ELSE prev.runs + 1
        signals == TopSignalsOf(s1)
    IN  IF ~ArtifactExists(s1)
        THEN [status |-> "raised", source |-> "run_stage2", runs |-> runs,
              exc |-> "FileNotFoundError", n_signals_in |-> 0,
              results |-> PrevResults(prev)]
        ELSE [status |-> "done", source |-> "run_stage2", runs |-> runs,
              exc |-> NoExc, n_signals_in |-> Len(signals),
              results |-> [i \in 1..Len(signals) |-> DeepAnalysis(signals[i])]]

RunStage2 ==
    /\ Stage2Runs < MaxStage2Runs
    /\ deep_results' = Stage2Artifact(deep_results, trigger_context)
    /\ UNCHANGED <<reconciled, scored, anomaly_io, trigger_context, qb2_io,
                 cached_config, usage_db, migrations_db>>

\* the universe of the Stage 2 service when the configuration names none
Stage2DefaultUniverse == <<"AAPL", "SPY", "QQQ", "TSLA", "MSFT">>

\* load_universe: paths.static_universe upper-cased, or the default
Stage2Universes == {Stage2DefaultUniverse, <<"AAPL", "MSFT">>}

\* str.upper on the tickers that occur
Upper(t) ==
    CASE t = "aapl" -> "AAPL"
      [] t = "spy"  -> "SPY"
      [] t = "msft" -> "MSFT"
      [] OTHER      -> t

\* a loop over the service's own qb1 list instead of the artifact's signals
ServiceSignalsFromUniverse(ctx, universe) ==
    [i \in 1..Len(universe) |-> [ticker |-> universe[i]]]

\* the signals main() loops over
ServiceSignals(ctx, universe) == SignalsOf(ctx)

\* the loop of main(): one reconciled record for every signal whose ticker has
\* a qb1 item; of the record only the ticker (rec.ticker = qb1_item.ticker) is
\* kept here
RECURSIVE ServiceResults(_, _, _)
ServiceResults(signals, universe, i) ==
    IF i > Len(signals) THEN << >>
    ELSE LET ticker == Upper(signals[i].ticker)
         IN  IF \E k \in DOMAIN universe : universe[k] = ticker
             THEN <<[ticker |-> ticker]>> \o ServiceResults(signals, universe, i + 1)
             ELSE ServiceResults(signals, universe, i + 1)

\* main() of the Stage 2 service: the artifact written, or FileNotFoundError
\* from read_artifact
Stage2ServiceOutput(prev, ctx, universe) ==
    LET runs == IF prev.status = "not called" THEN 1 ELSE prev.runs + 1
    IN  IF ~ArtifactExists(ctx)
        THEN [status |-> "raised", source |-> "stage2_service", runs |-> runs,
              exc |-> "FileNotFoundError", n_signals_in |-> 0,
              results |-> PrevResults(prev)]
        ELSE LET signals == ServiceSignals(ctx, universe)
             IN  [status |-> "done", source |-> "stage2_service", runs |-> runs,
                  exc |-> NoExc, n_signals_in |-> Len(signals),
                  results |-> ServiceResults(signals, universe, 1)]

Stage2ServiceMain ==
    /\ Stage2Runs < MaxStage2Runs
    /\ \E universe \in Stage2Universes :
         deep_results' = Stage2ServiceOutput(deep_results, trigger_context, universe)
    /\ UNCHANGED <<reconciled, scored, anomaly_io, trigger_context, qb2_io,
                 cached_config, usage_db, migrations_db>>

\* the runs of either stage after which a Stage 1 run is no longer explored
MaxPipelineRuns == 1

\* a Stage 1 run, before or after a Stage 2 run, while fewer than
\* MaxPipelineRuns runs of either stage have been made
WithinRunBudget == Runs + Stage2Runs < MaxPipelineRuns

NextPipeline ==
    \/ WithinRunBudget /\ RunQb1
    \/ WithinRunBudget /\ RunStage1
    \/ RunStage2
    \/ Stage2ServiceMain

SpecPipeline == Init /\ [][NextPipeline]_vars

\* the tickers with a Stage 2 record
Stage2Tickers(dr) ==
    IF dr.status = "not called" THEN {}
    ELSE {dr.results[i].ticker : i \in DOMAIN dr.results}

\* the tickers whose Stage 1 gate decision the artifact holds: every signal
\* Stage 1 scored was either admitted or left out
GateDecided(s1) ==
    IF s1.status # "done" THEN {}
    ELSE {s1.signals[i].ticker : i \in DOMAIN s1.signals}

Admitted(s1) ==
    IF s1.status # "done" THEN {}
    ELSE IF s1.source = "run_qb1"
    THEN {s1.triggers[i].ticker : i \in DOMAIN s1.triggers}
    ELSE {s1.top_signals[i].ticker : i \in DOMAIN s1.top_signals}

\* C14: every ticker a Stage 2 run produces a record for was admitted by the
\* Stage 1 gate of the artifact the run read; a signal that failed the gate
\* gets no Stage 2 record.
Stage2OnlyAdmitted ==
    [][(deep_results' # deep_results /\ deep_results'.status = "done") =>
          \A t \in Stage2Tickers(deep_results') : t \in Admitted(trigger_context)
      ]_vars

(***************************************************************************)
(* The structure analysis of brains/qb2/core.py: fetch_long_history,       *)
(* compute_structure, merge_fundamentals and run_qb2                       *)
(***************************************************************************)

\* the longest downloaded history, in rows
MaxHistory == 201

\* the course of the closes over the rows
Shapes == {"constant", "rising", "falling", "zigzag", "sawtooth", "gap"}

\* the close of row i: always positive, NaN for the missing row of "gap"
ShapePrice(shape, i) ==
    CASE shape = "constant" -> 100
      [] shape = "rising"   -> 100 + i
      [] shape = "falling"  -> 500 - i
      [] shape = "zigzag"   -> 100 + 2 * (i % 2)
      [] shape = "sawtooth" -> 100 + i + 3 * (i % 2)
      [] shape = "gap"      -> IF i = 2 THEN NaN ELSE 100 + i

\* what yf.download gives: an exception, nothing, a frame without a close
\* column, or a frame of rows
Downloads ==
    {[kind |-> k, close |-> << >>] : k \in {"exception", "None", "no_close"}}
    \cup {[kind |-> "df", close |-> [i \in 1..n |-> ShapePrice(shape, i)]] :
              n \in 0..MaxHistory, shape \in Shapes}

\* fetch_long_history: the closes of the rows left by dropna(); the empty
\* frame for a failed or empty download and for a frame without closes
fetch_long_history(download) ==
    IF download.kind # "df" THEN << >> ELSE DropNa(download.close)

\* a float held as the exact fraction num/den, den > 0
Frac(n, d) == [kind |-> "float", num |-> n, den |-> d]

\* values[lo] + ... + values[hi], summed by halves
RECURSIVE SumRange(_, _, _)
SumRange(values, lo, hi) ==
    IF lo > hi THEN 0
    ELSE IF lo = hi THEN values[lo]
    ELSE LET mid == (lo + hi) \div 2
         IN  SumRange(values, lo, mid) + SumRange(values, mid + 1, hi)

\* close.rolling(k).mean().iloc[-1], None where it is NaN
RollingMeanLast(close, k) ==
    IF Len(close) < k THEN NoneVal
    ELSE Frac(SumRange(close, Len(close) - k + 1, Len(close)), k)

SeqMax(values) ==
    CHOOSE x \in {values[i] : i \in DOMAIN values} :
        \A i \in DOMAIN values : x >= values[i]

SeqMin(values) ==
    CHOOSE x \in {values[i] : i \in DOMAIN values} :
        \A i \in DOMAIN values : x <= values[i]

\* the last k values of close.diff(), NaN first row left out
LastDiffs(close, k) ==
    LET n == Len(close)
    IN  [j \in 1..Min(k, n - 1) |->
            close[n - Min(k, n - 1) + j] - close[n - Min(k, n - 1) + j - 1]]

\* up / down of a delta: delta.clip(lower=0) and -delta.clip(upper=0)
UpMove(delta) == Max(delta, 0)

DownMove(delta) == Max(-delta, 0)

RECURSIVE SumUp(_)
SumUp(deltas) ==
    IF deltas = << >> THEN 0 ELSE UpMove(Head(deltas)) + SumUp(Tail(deltas))

RECURSIVE SumDown(_)
SumDown(deltas) ==
    IF deltas = << >> THEN 0 ELSE DownMove(Head(deltas)) + SumDown(Tail(deltas))

RsiPeriod == 14

\* roll_down.iloc[-1] is a number (not NaN) once 14 deltas exist
RollDownIsNumber(close) == Len(close) > RsiPeriod

\* the 20-day volatility: sqrt(252) times the sample deviation of the last 20
\* returns, kept as the closes it is computed from
Vol20(close) ==
    IF Len(close) > 20
    THEN [kind |-> "float", returns_of |-> LastK(close, 21)]
    ELSE NoneVal

\* (last20.max() - last20.min()) / last20.mean() if len(last20) > 10
Compression(close) ==
    LET last20 == LastK(close, 20)
    IN  IF Len(last20) > 10
        THEN Frac((SeqMax(last20) - SeqMin(last20)) * Len(last20), Sum(last20))
        ELSE NoneVal

\* a < b for two rolling means; a comparison with NaN is False
FracLess(a, b) ==
    /\ a.kind = "float"
    /\ b.kind = "float"
    /\ a.num * b.den < b.num * a.den

\* the if / elif / else on sma50.iloc[-1] and sma200.iloc[-1]
Trend(sma50, sma200) ==
    IF FracLess(sma200, sma50) THEN [kind |-> "str", name |-> "uptrend"]
    ELSE IF FracLess(sma50, sma200) THEN [kind |-> "str", name |-> "downtrend"]
    ELSE [kind |-> "str", name |-> "flat"]

\* the dict without keys
EmptyDict == [k \in {} |-> NoneVal]

StructureFields ==
    {"sma20", "sma50", "sma200", "vol20", "range_compression_20d", "trend", "rsi14"}

\* the RSI14 step of compute_structure: the value, None where rs is NaN, or
\* AttributeError where roll_down.iloc[-1] == 0 makes rs the float np.nan,
\* which has no .iloc
Rsi14(close) ==
    LET deltas == LastDiffs(close, RsiPeriod)
        up     == SumUp(deltas)
        down   == SumDown(deltas)
    IN  IF ~RollDownIsNumber(close) THEN [exc |-> NoExc, value |-> NoneVal]
        ELSE IF down = 0 THEN [exc |-> "AttributeError", value |-> NoneVal]
        ELSE [exc |-> NoExc, value |-> Frac(100 * up, up + down)]

\* compute_structure on a frame with rows
StructureOfRows(close) ==
    LET sma50  == RollingMeanLast(close, 50)
        sma200 == RollingMeanLast(close, 200)
        rsi    == Rsi14(close)
    IN  IF rsi.exc # NoExc
        THEN [status |-> "raised", exc |-> rsi.exc, structure |-> EmptyDict]
        ELSE [status |-> "returned", exc |-> NoExc,
              structure |->
                  [sma20 |-> RollingMeanLast(close, 20),
                   sma50 |-> sma50,
                   sma200 |-> sma200,
                   vol20 |-> Vol20(close),
                   range_compression_20d |-> Compression(close),
                   trend |-> Trend(sma50, sma200),
                   rsi14 |-> rsi.value]]

\* compute_structure without the df.empty guard: sma50.iloc[-1] of an empty
\* series is an IndexError
ComputeStructureUnguarded(close) ==
    IF close = << >>
    THEN [status |-> "raised", exc |-> "IndexError", structure |-> EmptyDict]
    ELSE StructureOfRows(close)

\* compute_structure: {} for an empty frame
compute_structure(close) ==
    IF close = << >>
    THEN [status |-> "returned", exc |-> NoExc, structure |-> EmptyDict]
    ELSE StructureOfRows(close)

\* the most providers merged in one call
MaxSources == 3

FundamentalKeys == {"pe", "market_cap"}

\* a provider's value for a key: null, or a number (0 is not null)
FundamentalValues == {NoneVal, Num(0), Num(7)}

\* what a provider returns: any of the keys, each with any of the values; {}
\* without its API key or on error
ProviderDicts == UNION {[K -> FundamentalValues] : K \in SUBSET FundamentalKeys}

SourceLists == UNION {[1..n -> ProviderDicts] : n \in 0..MaxSources}

\* the keys of src with a non-null value
NonNullKeys(src) == {k \in DOMAIN src : src[k].kind # "None"}

\* one provider merged with the later value overwriting the earlier
MergeOneOverwrite(out, src) ==
    [k \in DOMAIN out \cup NonNullKeys(src) |->
        IF k \in NonNullKeys(src) THEN src[k] ELSE out[k]]

\* the inner loop of merge_fundamentals: the non-null values of src under
\* the keys `out` does not have yet
MergeOne(out, src) ==
    [k \in DOMAIN out \cup NonNullKeys(src) |->
        IF k \in DOMAIN out THEN out[k] ELSE src[k]]

\* the outer loop of merge_fundamentals from source i on
RECURSIVE MergeFrom(_, _, _)
MergeFrom(sources, i, out) ==
    IF i > Len(sources) THEN out
    ELSE MergeFrom(sources, i + 1, MergeOne(out, sources[i]))

merge_fundamentals(sources) == MergeFrom(sources, 1, EmptyDict)

\* run_qb2 with the download and the two providers' answers as given
Qb2Output(in) ==
    LET hist      == fetch_long_history(in.download)
        structure == compute_structure(hist)
        f_fmp     == in.sources[1]
        f_av      == in.sources[2]
    IN  IF structure.status = "raised"
        THEN [status |-> "raised", call |-> "run_qb2", exc |-> structure.exc,
              download |-> in.download, sources |-> in.sources, hist |-> hist,
              structure |-> EmptyDict, fundamentals |-> EmptyDict,
              meta |-> [has_fmp |-> FALSE, has_alpha_vantage |-> FALSE,
                        history_points |-> 0]]
        ELSE [status |-> "done", call |-> "run_qb2", exc |-> NoExc,
              download |-> in.download, sources |-> in.sources, hist |-> hist,
              structure |-> structure.structure,
              fundamentals |-> merge_fundamentals(<<f_fmp, f_av>>),
              meta |-> [has_fmp |-> DOMAIN f_fmp # {},
                        has_alpha_vantage |-> DOMAIN f_av # {},
                        history_points |-> Len(hist)]]

RunQb2 ==
    /\ qb2_io.status = "input"
    /\ Len(qb2_io.sources) = 2
    /\ qb2_io' = Qb2Output(qb2_io)
    /\ UNCHANGED <<reconciled, scored, anomaly_io, trigger_context, deep_results,
                 cached_config, usage_db, migrations_db>>

\* a direct call of merge_fundamentals(*sources)
MergeFundamentals ==
    /\ qb2_io.status = "input"
    /\ qb2_io' = [status |-> "done", call |-> "merge_fundamentals", exc |-> NoExc,
                  download |-> qb2_io.download, sources |-> qb2_io.sources,
                  hist |-> << >>, structure |-> EmptyDict,
                  fundamentals |-> merge_fundamentals(qb2_io.sources),
                  meta |-> [has_fmp |-> FALSE, has_alpha_vantage |-> FALSE,
                            history_points |-> 0]]
    /\ UNCHANGED <<reconciled, scored, anomaly_io, trigger_context, deep_results,
                 cached_config, usage_db, migrations_db>>

\* the call about to be made: a download with no provider configured, or a
\* list of provider answers with nothing downloaded
InitQb2 ==
    /\ reconciled = NotCalled
    /\ scored = NotCalled
    /\ anomaly_io = NotCalled
    /\ trigger_context = NotCalled
    /\ deep_results = NotCalled
    /\ cached_config = NotCalled
    /\ usage_db = NotCalled
    /\ migrations_db = NotCalled
    /\ \/ \E d \in Downloads :
            qb2_io = [status |-> "input", download |-> d,
                      sources |-> <<EmptyDict, EmptyDict>>]
       \/ \E srcs \in SourceLists :
            qb2_io = [status |-> "input",
                      download |-> [kind |-> "None", close |-> << >>],
                      sources |-> srcs]

NextQb2 == RunQb2 \/ MergeFundamentals

SpecQb2 == InitQb2 /\ [][NextQb2]_vars

\* run_qb2 has been called on a history with rows
StructureRun ==
    /\ qb2_io.status \in {"done", "raised"}
    /\ qb2_io.call = "run_qb2"
    /\ qb2_io.hist # << >>

\* field k of the structure is absent: None, or not a key at all
Absent(structure, k) ==
    k \notin DOMAIN structure \/ structure[k].kind = "None"

\* C15: the trend is uptrend when sma50 > sma200, downtrend when sma50 <
\* sma200, flat when they are equal, and absent whenever sma50 or sma200 is
\* absent.
TrendClassification ==
    (StructureRun /\ qb2_io.status = "done") =>
        LET st == qb2_io.structure
        IN  IF st.sma50.kind = "None" \/ st.sma200.kind = "None"
            THEN st.trend.kind = "None"
            ELSE /\ st.trend.kind = "str"
                 /\ (st.trend.name = "uptrend") = FracLess(st.sma200, st.sma50)
                 /\ (st.trend.name = "downtrend") = FracLess(st.sma50, st.sma200)
                 /\ (st.trend.name = "flat") =
                        (st.sma50.num * st.sma200.den = st.sma200.num * st.sma50.den)

\* no down move among the last 14 changes of the closes
AverageLossZero(close) == SumDown(LastDiffs(close, RsiPeriod)) = 0

\* C16: when the average loss over the last 14 periods is zero, or there are
\* fewer than 14 changes, compute_structure does not raise and returns rsi14
\* absent together with the other fields; a present rsi14 lies in [0, 100].
RsiAbsence ==
    StructureRun =>
        /\ qb2_io.status = "done"
        /\ DOMAIN qb2_io.structure = StructureFields
        /\ (AverageLossZero(qb2_io.hist) \/ Len(qb2_io.hist) <= RsiPeriod) =>
               qb2_io.structure.rsi14.kind = "None"
        /\ qb2_io.structure.rsi14.kind = "float" =>
               /\ 0 <= qb2_io.structure.rsi14.num
               /\ qb2_io.structure.rsi14.num <= 100 * qb2_io.structure.rsi14.den

\* C17: for every non-empty history with fewer than 20 points,
\* compute_structure does not raise and returns sma20, vol20 and
\* range_compression_20d all absent.
ShortHistoryAbsentSafe ==
    (StructureRun /\ Len(qb2_io.hist) < 20) =>
        /\ qb2_io.status = "done"
        /\ Absent(qb2_io.structure, "sma20")
        /\ Absent(qb2_io.structure, "vol20")
        /\ Absent(qb2_io.structure, "range_compression_20d")

\* C18: range_compression_20d is absent exactly when the history has fewer
\* than 10 points, and otherwise is (max - min) / mean of the last 20 (or all
\* available) closes.
RangeCompressionThreshold ==
    (StructureRun /\ qb2_io.status = "done") =>
        LET last20 == LastK(qb2_io.hist, 20)
            rc     == qb2_io.structure.range_compression_20d
        IN  /\ (rc.kind = "None") = (Len(qb2_io.hist) < 10)
            /\ rc.kind = "float" =>
                   rc.num * Sum(last20) =
                       (SeqMax(last20) - SeqMin(last20)) * Len(last20) * rc.den

\* C19: for an empty or unusable price history run_qb2 raises nothing and
\* returns a structure in which every field is absent.
EmptyHistoryDegrades ==
    (qb2_io.status \in {"done", "raised"} /\ qb2_io.call = "run_qb2"
        /\ qb2_io.hist = << >>) =>
        /\ qb2_io.status = "done"
        /\ \A k \in StructureFields : Absent(qb2_io.structure, k)
        /\ qb2_io.meta.history_points = 0

\* a frame whose only row has no close is unusable and degrades
EmptyHistoryWitness ==
    /\ qb2_io.status = "done"
    /\ qb2_io.call = "run_qb2"
    /\ qb2_io.download.kind = "df"
    /\ Len(qb2_io.download.close) = 0
    /\ qb2_io.structure = EmptyDict

\* the providers, in argument order, with a non-null value for key k
ProvidersOf(sources, k) ==
    {i \in DOMAIN sources : k \in DOMAIN sources[i] /\ sources[i][k].kind # "None"}

\* C20: merge_fundamentals gives each key the value of the first provider, in
\* argument order, whose value for it is non-null; the result has no null
\* value and no key that no provider has a non-null value for.
MergePrecedence ==
    (qb2_io.status = "done" /\ qb2_io.call = "merge_fundamentals") =>
        LET out == qb2_io.fundamentals
        IN  /\ DOMAIN out \subseteq FundamentalKeys
            /\ \A k \in FundamentalKeys :
                   LET having == ProvidersOf(qb2_io.sources, k)
                   IN  IF having = {} THEN k \notin DOMAIN out
                       ELSE /\ k \in DOMAIN out
                            /\ out[k].kind # "None"
                            /\ \E i \in having :
                                   /\ \A j \in having : i <= j
                                   /\ out[k] = qb2_io.sources[i][k]

\* the first provider has null for pe, the second 0 and the third 7: the
\* second provider's 0 is the merged value
MergePrecedenceWitness ==
    /\ qb2_io.status = "done"
    /\ qb2_io.call = "merge_fundamentals"
    /\ Len(qb2_io.sources) = 3
    /\ "pe" \in DOMAIN qb2_io.sources[1]
    /\ qb2_io.sources[1]["pe"] = NoneVal
    /\ "pe" \in DOMAIN qb2_io.sources[2]
    /\ qb2_io.sources[2]["pe"] = Num(0)
    /\ "pe" \in DOMAIN qb2_io.sources[3]
    /\ qb2_io.sources[3]["pe"] = Num(7)
    /\ qb2_io.fundamentals["pe"] = Num(0)

(***************************************************************************)
(* One instrument from its fetched history to the gate decision:           *)
(* build_stage1_signal lines 380-394 and run_qb1 lines 475-476             *)
(***************************************************************************)

\* trigger_thresholds.score when the configuration names none: 2.0
DefaultScoreThreshold == 2 * Scale * Scale

AnomalyMacroValues == {0, 50}

AnomalyNewsCounts == {0, 2}

\* the anomaly of the fetched history, the signal built from it and whether
\* the default threshold admits it
ScoredHistory(in) ==
    LET anomaly == compute_price_anomaly(in.history_df, in.lookback)
        signal  == Stage1Signal("AAPL", ZCenti(anomaly.z_score), in.macro_w,
                                in.news_count, FALSE)
    IN  [status |-> "scored", history_df |-> in.history_df, lookback |-> in.lookback,
         macro_w |-> in.macro_w, news_count |-> in.news_count,
         path |-> AnomalyPath(in.history_df, in.lookback),
         anomaly |-> anomaly, signal |-> signal,
         admitted |-> PassesThreshold(signal, DefaultScoreThreshold)]

ComputePriceAnomaly ==
    /\ anomaly_io.status = "input"
    /\ anomaly_io' = ScoredHistory(anomaly_io)
    /\ UNCHANGED <<reconciled, scored, trigger_context, deep_results, qb2_io,
                 cached_config, usage_db, migrations_db>>

ComputeSimpleZ ==
    /\ anomaly_io.status = "input"
    /\ anomaly_io' = [status |-> "simple_z", history_df |-> anomaly_io.history_df,
                      z |-> compute_simple_z(anomaly_io.history_df)]
    /\ UNCHANGED <<reconciled, scored, trigger_context, deep_results, qb2_io,
                 cached_config, usage_db, migrations_db>>

InitAnomaly ==
    /\ reconciled = NotCalled
    /\ scored = NotCalled
    /\ trigger_context = NotCalled
    /\ deep_results = NotCalled
    /\ qb2_io = NotCalled
    /\ cached_config = NotCalled
    /\ usage_db = NotCalled
    /\ migrations_db = NotCalled
    /\ \E h \in Histories, l \in Lookbacks, m \in AnomalyMacroValues,
          n \in AnomalyNewsCounts :
           anomaly_io = [status |-> "input", history_df |-> h, lookback |-> l,
                         macro_w |-> m, news_count |-> n]

NextAnomaly == ComputePriceAnomaly \/ ComputeSimpleZ

SpecAnomaly == InitAnomaly /\ [][NextAnomaly]_vars

AnomalyScored == anomaly_io.status = "scored"

\* C9: on every return path of compute_price_anomaly n_points == 0 implies
\* z_score == 0.0 and volatility == 0.0; a missing, empty or all-NaN history and
\* the exception path return exactly {0.0, 0.0, 0}; the signal of an empty
\* history has score 0.0 without news and macro and the gate at threshold 2.0
\* excludes it.
AnomalySignalInvariant ==
    AnomalyScored =>
        /\ anomaly_io.anomaly.n_points = 0 =>
               /\ anomaly_io.anomaly.z_score.num = 0
               /\ anomaly_io.anomaly.volatility.kind = "float"
               /\ anomaly_io.anomaly.volatility.var_num = 0
        /\ ( \/ anomaly_io.history_df.kind # "df"
             \/ \A i \in DOMAIN anomaly_io.history_df.close :
                    anomaly_io.history_df.close[i] = NaN
             \/ anomaly_io.path = "except" ) =>
               /\ anomaly_io.anomaly.n_points = 0
               /\ anomaly_io.anomaly.z_score.num = 0
               /\ anomaly_io.anomaly.volatility.kind = "float"
               /\ anomaly_io.anomaly.volatility.var_num = 0
        /\ (anomaly_io.history_df.kind = "df" /\ anomaly_io.history_df.close = << >>
              /\ anomaly_io.macro_w = 0 /\ anomaly_io.news_count = 0) =>
               /\ anomaly_io.signal.score = 0
               /\ ~anomaly_io.admitted

\* the exception path: a negative lookback that slices the whole series away
AnomalySignalWitness ==
    /\ AnomalyScored
    /\ anomaly_io.history_df.kind = "df"
    /\ anomaly_io.history_df.close = <<1, 3>>
    /\ anomaly_io.lookback = -2
    /\ anomaly_io.path = "except"
    /\ anomaly_io.anomaly.n_points = 0

\* the most recent `window` samples of a history, as the claim reads it
ClaimedWindow(history_df, window) ==
    IF history_df.kind # "df" THEN << >>
    ELSE LET series == DropNa(history_df.close)
         IN  SubSeq(series, Len(series) - Min(window, Len(series)) + 1, Len(series))

\* the sum of (n*x - S)^2 over a window: n^3 times its population variance
SumSqDev(window) ==
    LET n == Len(window)
        S == Sum(window)
    IN  Sum([i \in 1..n |-> (n * window[i] - S) * (n * window[i] - S)])

\* z is 0.0 for a window of fewer than 2 points or of zero deviation, and
\* (latest - mean)/std with the population deviation otherwise
IsClaimedZ(z, window) ==
    LET n == Len(window)
    IN  IF n < 2 \/ SumSqDev(window) = 0
        THEN z.num = 0
        ELSE LET cnum == n * window[n] - Sum(window)
             IN  /\ z.num * z.num * SumSqDev(window) = cnum * cnum * n * z.den2
                 /\ (z.num > 0) = (cnum > 0)
                 /\ (z.num < 0) = (cnum < 0)

\* C10: for every price series whose lookback window has fewer than 2 points
\* or zero standard deviation the z-score is exactly 0.0, and otherwise it is
\* (latest - mean)/std with the population standard deviation over the most
\* recent `window` samples (compute_price_anomaly with its lookback,
\* compute_simple_z with its window of 10).
ZScoreOfWindow ==
    /\ (AnomalyScored /\ anomaly_io.lookback >= 1) =>
           IsClaimedZ(anomaly_io.anomaly.z_score,
                      ClaimedWindow(anomaly_io.history_df, anomaly_io.lookback))
    /\ anomaly_io.status = "simple_z" =>
           IsClaimedZ(anomaly_io.z, ClaimedWindow(anomaly_io.history_df, SimpleZWindow))

\* every close of the series is the same
AllEqual(series) == \A i, j \in DOMAIN series : series[i] = series[j]

\* C11: for every price series with fewer than 2 period returns (0, 1 or 2
\* closes) and for every series whose values are all equal, compute_price_anomaly
\* returns volatility exactly 0.0, a defined number, never NaN.
VolatilityDegenerateZero ==
    (AnomalyScored /\ anomaly_io.history_df.kind = "df") =>
        LET series == DropNa(anomaly_io.history_df.close)
        IN  (Len(series) <= 2 \/ AllEqual(series)) =>
                /\ anomaly_io.anomaly.volatility.kind = "float"
                /\ anomaly_io.anomaly.volatility.var_num = 0

(***************************************************************************)
(* Reconciler: brains/reconcile/core.py                                    *)
(***************************************************************************)

\* 1.0 for relevance and risk
Unit == 10000

\* 1.0 for the raw (unrounded) confidence: W1 * relevance + W2 * (1 - risk)
RawUnit == 10 * Unit

\* the weights 0.6 and 0.4, in tenths
W1 == 6

W2 == 4

RelevanceValues ==
    {Num(n) : n \in {-5000, 0, 25, 3333, 5000, 8000, 9999, 10000, 15000, 30000}}
        \cup {NoneVal, NotNumeric}

RiskValues ==
    {Num(n) : n \in {-5000, 0, 2000, 6667, 9000, 10000, 20000}}
        \cup {NoneVal, NotNumeric}

ReconcileTickers == {"AAPL", "SPY"}

\* float(x): the number, or the exception it raises
Float(x) ==
    IF x.kind = "None" THEN [exc |-> "TypeError", val |-> 0]
    ELSE IF x.kind = "str" THEN [exc |-> "ValueError", val |-> 0]
    ELSE [exc |-> NoExc, val |-> x.val]

\* what `except Exception` catches
CaughtByExceptException == {"TypeError", "ValueError"}

\* the inputs clamped to [0,1] before they are combined
CombinePreClamped(rel, risk) ==
    W1 * Max(0, Min(Unit, rel)) + W2 * (Unit - Max(0, Min(Unit, risk)))

\* 0.6 * float(relevance) + 0.4 * (1.0 - float(risk)), raw units
Combine(rel, risk) == W1 * rel + W2 * (Unit - risk)

\* if confidence < 0.0: 0.0; if confidence > 1.0: 1.0
Clamp(c) == IF c < 0 THEN 0 ELSE IF c > RawUnit THEN RawUnit ELSE c

\* the handler leaving `confidence` at its initial 0.0
FallbackInitial == 0

\* the value of `confidence` in the handler: 0.5
FallbackConfidence == RawUnit \div 2

\* the try/except block: the confidence before rounding, or a propagated
\* exception
TryConfidence(relevance_score, risk_score) ==
    LET fr == Float(relevance_score)
        fk == Float(risk_score)
        e  == IF fr.exc # NoExc THEN fr.exc ELSE fk.exc
    IN  IF e = NoExc
        THEN [exc |-> NoExc, val |-> Clamp(Combine(fr.val, fk.val))]
        ELSE IF e \in CaughtByExceptException
        THEN [exc |-> NoExc, val |-> FallbackConfidence]
        ELSE [exc |-> e, val |-> 0]

\* the confidence returned as a percentage
Round3Percent(raw) == RoundHalfEven(raw, 100) * 100

\* round(float(confidence), 3): raw units to thousandths
Round3(raw) == RoundHalfEven(raw, 100)

\* a string as the sequence of its pieces; the empty string has none
EmptyStr == << >>

\* the narrative inputs of a call: nb1.narrative, nb2.market_context,
\* nb2.sentiment and the list nb2.catalysts, each present or empty
NarrativeInputs ==
    LET full == [narrative |-> <<"AAPL shows an upward price anomaly.">>,
                 market_context |-> <<"broader market neutral">>,
                 sentiment |-> <<"bullish">>,
                 catalysts |-> <<<<"earnings">>, <<"analyst coverage">>>>]
    IN  {full,
         [full EXCEPT !.narrative = EmptyStr],
         [full EXCEPT !.market_context = EmptyStr],
         [full EXCEPT !.sentiment = EmptyStr],
         [full EXCEPT !.catalysts = << >>],
         [narrative |-> EmptyStr, market_context |-> EmptyStr,
          sentiment |-> EmptyStr, catalysts |-> << >>]}

\* sep.join(strings)
RECURSIVE JoinStr(_, _)
JoinStr(strings, sep) ==
    IF strings = << >> THEN EmptyStr
    ELSE IF Len(strings) = 1 THEN strings[1]
    ELSE strings[1] \o sep \o JoinStr(Tail(strings), sep)

\* `if p` on a string
IsTruthy(p) == p # EmptyStr

\* f"{label}{body}."
Labelled(label, body) == <<label>> \o body \o <<".">>

\* ", ".join(nb2.catalysts) if nb2.catalysts else "none"
CatalystsText(catalysts) ==
    IF catalysts # << >> THEN JoinStr(catalysts, <<", ">>) ELSE <<"none">>

\* final_narrative: the truthy parts joined with " "
FinalNarrative(texts) ==
    LET narrative_parts ==
            <<texts.narrative,
              Labelled("Market context: ", texts.market_context),
              Labelled("Sentiment: ", texts.sentiment),
              Labelled("Catalysts: ", CatalystsText(texts.catalysts))>>
    IN  JoinStr(SelectSeq(narrative_parts, IsTruthy), <<" ">>)

\* reconcile(qb1, qb2, nb1, nb2)
ReconcileOutput(ticker, relevance_score, risk_score, texts) ==
    LET c == TryConfidence(relevance_score, risk_score)
    IN  IF c.exc # NoExc
        THEN [status |-> "raised", exc |-> c.exc, ticker |-> ticker,
              relevance_score |-> relevance_score, risk_score |-> risk_score,
              texts |-> texts, final_narrative |-> EmptyStr,
              confidence |-> 0]
        ELSE [status |-> "ok", exc |-> NoExc, ticker |-> ticker,
              relevance_score |-> relevance_score, risk_score |-> risk_score,
              texts |-> texts, final_narrative |-> FinalNarrative(texts),
              confidence |-> Round3(c.val)]

Reconcile ==
    /\ \E t \in ReconcileTickers, rel \in RelevanceValues, risk \in RiskValues,
          texts \in NarrativeInputs :
           reconciled' = ReconcileOutput(t, rel, risk, texts)
    /\ UNCHANGED <<scored, anomaly_io, trigger_context, deep_results, qb2_io,
                 cached_config, usage_db, migrations_db>>

NextReconcile == Reconcile

SpecReconcile == Init /\ [][NextReconcile]_vars

Reconciled == reconciled.status # "not called"

InUnit(x) == IsNumber(x) /\ x.val \in 0..Unit

\* C4: for all relevance and risk in [0,1] the confidence stored in the record
\* returned by reconcile lies in [0,1] inclusive.
ConfidenceBounded ==
    (Reconciled /\ InUnit(reconciled.relevance_score) /\ InUnit(reconciled.risk_score))
        => /\ reconciled.status = "ok"
           /\ reconciled.confidence \in 0..1000

\* relevance and risk strictly inside (0,1), confidence strictly inside (0,1)
ConfidenceBoundedWitness ==
    /\ Reconciled
    /\ reconciled.relevance_score = Num(3333)
    /\ reconciled.risk_score = Num(6667)
    /\ reconciled.confidence = 333

\* clamp(0.6*relevance + 0.4*(1 - risk), 0.0, 1.0) as the claim states it,
\* raw units
ClaimedConfidence(rel, risk) ==
    Max(0, Min(RawUnit, (6 * rel) + (4 * Unit) - (4 * risk)))

\* C5 as stated: for every numeric relevance and risk the confidence equals
\* clamp(0.6*relevance + 0.4*(1 - risk), 0, 1) exactly.
ConfidenceIsClampedFormula ==
    (Reconciled /\ IsNumber(reconciled.relevance_score) /\ IsNumber(reconciled.risk_score))
        => /\ reconciled.status = "ok"
           /\ reconciled.confidence * 100
                  = ClaimedConfidence(reconciled.relevance_score.val, reconciled.risk_score.val)

\* C5 amended: the confidence equals clamp(0.6*relevance + 0.4*(1 - risk), 0, 1)
\* rounded to 3 decimal places; inputs are combined first, only the combined
\* value is clamped; relevance=0.8, risk=0.2 gives 0.800.
ConfidenceIsRoundedClampedFormula ==
    (Reconciled /\ IsNumber(reconciled.relevance_score) /\ IsNumber(reconciled.risk_score))
        => /\ reconciled.status = "ok"
           /\ LET c == ClaimedConfidence(reconciled.relevance_score.val, reconciled.risk_score.val)
              IN  /\ Abs(reconciled.confidence * 100 - c) <= 50
                  /\ (c % 100 = 0 => reconciled.confidence * 100 = c)
           /\ (reconciled.relevance_score = Num(8000) /\ reconciled.risk_score = Num(2000)
                  => reconciled.confidence = 800)

\* out-of-range inputs that cancel before the clamp: 1.5 and 1.0 give 0.9
ConfidenceFormulaWitness ==
    /\ Reconciled
    /\ reconciled.relevance_score = Num(15000)
    /\ reconciled.risk_score = Num(10000)
    /\ reconciled.confidence = 900

IsMissing(x) == ~IsNumber(x)

\* C6: when relevance or risk is missing or not numeric, reconcile returns a
\* record (the error is not propagated) whose confidence is exactly 0.5.
ConfidenceFallback ==
    (Reconciled /\ (IsMissing(reconciled.relevance_score) \/ IsMissing(reconciled.risk_score)))
        => /\ reconciled.status = "ok"
           /\ reconciled.confidence = 500

\* a missing relevance next to a numeric risk
ConfidenceFallbackWitness ==
    /\ Reconciled
    /\ reconciled.relevance_score = NoneVal
    /\ reconciled.risk_score = Num(2000)
    /\ reconciled.confidence = 500

\* the segment of a fragment: nothing for an empty fragment
SegmentOf(label, body) == IF body = EmptyStr THEN EmptyStr ELSE Labelled(label, body)

\* C23: final_narrative is the join, in a fixed order, of the supplied
\* fragments; an empty narrative, market context, sentiment or catalysts list
\* contributes no segment at all, neither a blank nor a label-only one.
NarrativeAssembly ==
    (Reconciled /\ reconciled.status = "ok") =>
        LET texts    == reconciled.texts
            segments ==
                <<texts.narrative,
                  SegmentOf("Market context: ", texts.market_context),
                  SegmentOf("Sentiment: ", texts.sentiment),
                  SegmentOf("Catalysts: ", JoinStr(texts.catalysts, <<", ">>))>>
        IN  reconciled.final_narrative = JoinStr(SelectSeq(segments, IsTruthy), <<" ">>)

(***************************************************************************)
(* Configuration loading: get_config_model of fia/config_loader.py         *)
(***************************************************************************)

\* a JSON value of defaults.json: an integer, a string holding an integer, any
\* other string, null, or no entry at all
JsonInt(n) == [kind |-> "int", val |-> n]

JsonNumStr(n) == [kind |-> "numeric str", val |-> n]

JsonStr == [kind |-> "str", val |-> 0]

JsonNull == [kind |-> "null", val |-> 0]

JsonMissing == [kind |-> "missing", val |-> 0]

\* the trigger_thresholds entries of defaults.json that are varied
LookbackEntries ==
    {JsonMissing, JsonInt(10), JsonInt(0), JsonInt(-2), JsonNumStr(5), JsonStr, JsonNull}

MaxSignalsEntries == {JsonMissing, JsonInt(25), JsonInt(0), JsonInt(-1), JsonStr}

ScoreEntries == {JsonMissing, JsonInt(3), JsonStr}

ConfigSources ==
    {[anomaly_lookback |-> a, max_signals_per_run |-> m, score |-> sc] :
        a \in LookbackEntries, m \in MaxSignalsEntries, sc \in ScoreEntries}

\* pydantic's validation of an int or float field without constraints: the
\* default for a missing entry, the number for a number or a numeric string,
\* an error for anything else
ValidateNumber(entry, default) ==
    IF entry.kind = "missing" THEN [ok |-> TRUE, val |-> default]
    ELSE IF entry.kind \in {"int", "numeric str"} THEN [ok |-> TRUE, val |-> entry.val]
    ELSE [ok |-> FALSE, val |-> 0]

DefaultAnomalyLookback == 10

DefaultMaxSignals == 25

\* ConfigModel(**base): the validated thresholds, or ValidationError
ValidateConfig(base) ==
    LET a  == ValidateNumber(base.anomaly_lookback, DefaultAnomalyLookback)
        m  == ValidateNumber(base.max_signals_per_run, DefaultMaxSignals)
        sc == ValidateNumber(base.score, 2)
    IN  IF a.ok /\ m.ok /\ sc.ok
        THEN [exc |-> NoExc,
              model |-> [score |-> sc.val * Scale * Scale,
                         z_threshold |-> DefaultZThreshold,
                         anomaly_lookback |-> a.val,
                         signal_score_min |-> 100,
                         zscore_abs_min |-> Scale,
                         max_signals_per_run |-> m.val]]
        ELSE [exc |-> "ValidationError", model |-> NoneVal]

\* _cached_config before the call
CachedBefore(prev) == IF prev.status = "not called" THEN NoneVal ELSE prev.cache

\* get_config_model with defaults.json holding `base`: the cached model if
\* there is one, else the validated model, which is cached, or the
\* ValidationError, which leaves the cache empty
ConfigLoad(prev, base) ==
    LET cached == CachedBefore(prev)
        v      == ValidateConfig(base)
        calls  == IF prev.status = "not called" THEN 1 ELSE prev.calls + 1
    IN  IF cached # NoneVal
        THEN [status |-> "returned", exc |-> NoExc, base |-> base, calls |-> calls,
              cache |-> cached, model |-> cached]
        ELSE IF v.exc = NoExc
        THEN [status |-> "returned", exc |-> NoExc, base |-> base, calls |-> calls,
              cache |-> v.model, model |-> v.model]
        ELSE [status |-> "raised", exc |-> v.exc, base |-> base, calls |-> calls,
              cache |-> NoneVal, model |-> NoneVal]

\* calls of get_config_model explored
MaxConfigCalls == 2

ConfigCalls == IF cached_config.status = "not called" THEN 0 ELSE cached_config.calls

GetConfigModel ==
    /\ ConfigCalls < MaxConfigCalls
    /\ \E base \in ConfigSources : cached_config' = ConfigLoad(cached_config, base)
    /\ UNCHANGED <<reconciled, scored, anomaly_io, trigger_context, deep_results,
                   qb2_io, usage_db, migrations_db>>

NextConfig == GetConfigModel

SpecConfig == Init /\ [][NextConfig]_vars

\* thresholds that are not numbers, or numbers outside their domain
Malformed(base) ==
    \E f \in {"anomaly_lookback", "max_signals_per_run", "score"} :
        base[f].kind \in {"str", "null"}

OutOfDomain(base) ==
    \/ base.anomaly_lookback.kind \in {"int", "numeric str"}
         /\ base.anomaly_lookback.val < 0
    \/ base.max_signals_per_run.kind \in {"int", "numeric str"}
         /\ base.max_signals_per_run.val < 0

\* C24: a configuration whose thresholds are malformed or out of domain (a
\* negative anomaly_lookback or max_signals_per_run) is rejected when it is
\* loaded and is never cached as the active configuration.
ConfigErrorsFatal ==
    /\ (cached_config.status # "not called" /\ cached_config.calls = 1
          /\ (Malformed(cached_config.base) \/ OutOfDomain(cached_config.base))) =>
           /\ cached_config.status = "raised"
           /\ cached_config.cache = NoneVal
    /\ (cached_config.status # "not called" /\ cached_config.cache # NoneVal) =>
           /\ cached_config.cache.anomaly_lookback >= 0
           /\ cached_config.cache.max_signals_per_run >= 0

(***************************************************************************)
(* The usage rollup and reservation cleanup of runners/reconcile_runner.py  *)
(***************************************************************************)

\* the rows of run_log explored
MaxRows == 2

\* the rows of fly_reservations explored
MaxReservations == 2

\* calls of run_reconcile explored
MaxReconciles == 2

\* datetime.now(timezone.utc), in days; the days before FirstOfMonth belong to
\* the month before
Today == 40

FirstOfMonth == 28

\* strftime("%Y-%m") of a day
MonthOf(day) == IF day < FirstOfMonth THEN "2025-02" ELSE "2025-03"

\* a timestamp column: an ISO string with a UTC offset ("offset"), with a
\* trailing Z ("Z") or without a zone ("naive"), a text that is no ISO
\* timestamp ("text"), the empty string of a missing key ("empty"), or null
Timestamp(form, day) == [form |-> form, day |-> day]

NullTimestamp == Timestamp("null", 0)

\* the rows run_log can hold: logged this month or last month, without a
\* timestamp key, or with a null timestamp
RunLogTimestamps ==
    {Timestamp("offset", Today - 1), Timestamp("offset", FirstOfMonth - 8),
     Timestamp("empty", 0), NullTimestamp}

\* the days reservations were made on: one, two and three days ago
ReservationDays == {Today - 1, Today - 2, Today - 3}

\* the timestamps fly_reservations can hold; r.get("timestamp") of a row
\* without the key is None, as of a row with a null timestamp
ReservationTimestamps ==
    {Timestamp("offset", d) : d \in ReservationDays}
        \cup {Timestamp(f, d) : f \in {"Z", "naive"}, d \in {Today - 1, Today - 3}}
        \cup {Timestamp("text", 0), NullTimestamp}

\* the sequences over S of length at most n
SeqsUpTo(S, n) == UNION {[1..k -> S] : k \in 0..n}

\* the reservations, their ids the primary keys
ReservationTables ==
    { [i \in DOMAIN tss |-> [id |-> i, timestamp |-> tss[i]]] :
          tss \in SeqsUpTo(ReservationTimestamps, MaxReservations) }

RunLogTables ==
    { [i \in DOMAIN tss |-> [timestamp |-> tss[i]]] :
          tss \in SeqsUpTo(RunLogTimestamps, MaxRows) }

\* fetch_table: the rows, or [] when Supabase is not configured
FetchTable(db, rows) == IF db.configured THEN rows ELSE << >>

\* str.startswith(month_key) of the timestamp
StartsWith(ts, month_key) ==
    ts.form \in {"offset", "Z", "naive"} /\ MonthOf(ts.day) = month_key

RECURSIVE CountRuns(_, _)
CountRuns(run_log, month_key) ==
    IF run_log = << >> THEN 0
    ELSE (IF StartsWith(Head(run_log).timestamp, month_key) THEN 1 ELSE 0)
             + CountRuns(Tail(run_log), month_key)

\* None.startswith of a null timestamp raises AttributeError
CountRaises(run_log) == \E i \in DOMAIN run_log : run_log[i].timestamp.form = "null"

\* the row of monthly_usage for the month, as a set of at most one row
UsageRows(monthly_usage, month) == {row \in monthly_usage : row.month = month}

\* update_monthly_usage: the row of the month updated to current + delta, or
\* inserted with delta
UpdateMonthlyUsage(db, month, delta) ==
    IF ~db.configured THEN db.monthly_usage
    ELSE IF UsageRows(db.monthly_usage, month) # {}
    THEN { IF row.month = month
           THEN [month |-> month, count |-> row.count + delta]
           ELSE row : row \in db.monthly_usage }
    ELSE db.monthly_usage \cup {[month |-> month, count |-> delta]}

\* ts.replace("Z", "+00:00")
ReplaceZ(ts) == IF ts.form = "Z" THEN Timestamp("offset", ts.day) ELSE ts

\* datetime.fromisoformat: the datetime, aware or naive, or ValueError
FromIsoFormat(ts) ==
    CASE ts.form = "offset" -> [exc |-> NoExc, aware |-> TRUE, day |-> ts.day]
      [] ts.form = "naive"  -> [exc |-> NoExc, aware |-> FALSE, day |-> ts.day]
      [] OTHER              -> [exc |-> "ValueError", aware |-> FALSE, day |-> 0]

\* days=2 of the stale cutoff
StaleDays == 2

\* the body of the cleanup loop for one reservation: stale when dt <
\* stale_cutoff, or when the try block raises: AttributeError for None,
\* ValueError from fromisoformat, TypeError from comparing a naive datetime
\* with the aware cutoff
IsStale(r) ==
    LET ts == r.timestamp
    IN  IF ts.form = "null" THEN TRUE
        ELSE LET dt == FromIsoFormat(ReplaceZ(ts))
             IN  IF dt.exc # NoExc THEN TRUE
                 ELSE IF ~dt.aware THEN TRUE
                 ELSE dt.day < Today - StaleDays

RECURSIVE StaleOf(_)
StaleOf(reservations) ==
    IF reservations = << >> THEN << >>
    ELSE (IF IsStale(Head(reservations)) THEN <<Head(reservations)>> ELSE << >>)
             \o StaleOf(Tail(reservations))

\* the ids of the rows
IdsOf(rows) == {rows[i].id : i \in DOMAIN rows}

RECURSIVE Without(_, _)
Without(rows, ids) ==
    IF rows = << >> THEN << >>
    ELSE (IF Head(rows).id \in ids THEN << >> ELSE <<Head(rows)>>)
             \o Without(Tail(rows), ids)

\* run_reconcile on the database: the tables after it, the ids whose deletion
\* it requested and the report it wrote, or the AttributeError of the rollup,
\* raised before anything is written
ReconcileRun(db) ==
    LET month_key       == MonthOf(Today)
        run_log         == FetchTable(db, db.run_log)
        reservations    == FetchTable(db, db.fly_reservations)
        runs_this_month == CountRuns(run_log, month_key)
        stale           == StaleOf(reservations)
    IN  IF CountRaises(run_log)
        THEN [db EXCEPT !.status = "raised", !.exc = "AttributeError",
                        !.reconciles = @ + 1, !.deleted = {}]
        ELSE [db EXCEPT
                !.status = "done", !.exc = NoExc, !.reconciles = @ + 1,
                !.monthly_usage = UpdateMonthlyUsage(db, month_key, runs_this_month),
                !.fly_reservations = Without(db.fly_reservations, IdsOf(stale)),
                !.deleted = IdsOf(stale),
                !.report = [month |-> month_key,
                            run_log_count |-> Len(run_log),
                            runs_this_month |-> runs_this_month,
                            reservations_total |-> Len(reservations),
                            reservations_removed |-> Len(stale)]]

\* the report before the first run
NoReport ==
    [month |-> "", run_log_count |-> 0, runs_this_month |-> 0,
     reservations_total |-> 0, reservations_removed |-> 0]

RunReconcile ==
    /\ usage_db.reconciles < MaxReconciles
    /\ usage_db' = ReconcileRun(usage_db)
    /\ UNCHANGED <<reconciled, scored, anomaly_io, trigger_context, deep_results,
                   qb2_io, cached_config, migrations_db>>

\* maybe_log_to_supabase of a Stage 1 or Stage 2 run: a row with the run's
\* timestamp_utc, inserted when Supabase is configured
LoggedRow == [timestamp |-> Timestamp("offset", Today)]

MaybeLogToSupabase ==
    /\ Len(usage_db.run_log) < MaxRows
    /\ usage_db.configured
    /\ usage_db' = [usage_db EXCEPT !.run_log = Append(@, LoggedRow)]
    /\ UNCHANGED <<reconciled, scored, anomaly_io, trigger_context, deep_results,
                   qb2_io, cached_config, migrations_db>>

\* the tables before the first reconcile: any run_log and reservations, no
\* usage rolled up yet
InitUsage ==
    /\ reconciled = NotCalled
    /\ scored = NotCalled
    /\ anomaly_io = NotCalled
    /\ trigger_context = NotCalled
    /\ deep_results = NotCalled
    /\ qb2_io = NotCalled
    /\ cached_config = NotCalled
    /\ migrations_db = NotCalled
    /\ \E configured \in BOOLEAN, run_log \in RunLogTables,
          reservations \in ReservationTables :
         usage_db = [status |-> "ready", exc |-> NoExc, configured |-> configured,
                     reconciles |-> 0, run_log |-> run_log,
                     fly_reservations |-> reservations, monthly_usage |-> {},
                     deleted |-> {}, report |-> NoReport]

NextUsage == RunReconcile \/ MaybeLogToSupabase

SpecUsage == InitUsage /\ [][NextUsage]_vars

\* the count monthly_usage holds for the month; 0 without a row
UsageCount(db, month) ==
    IF UsageRows(db.monthly_usage, month) = {} THEN 0
    ELSE (CHOOSE row \in UsageRows(db.monthly_usage, month) : TRUE).count

\* C28: after a completed run_reconcile against a configured database, the
\* monthly_usage count of the current month equals the number of run_log rows
\* of that month, however many runs came before.
UsageNoDoubleCount ==
    [][(usage_db'.reconciles # usage_db.reconciles /\ usage_db'.status = "done"
          /\ usage_db.configured) =>
           UsageCount(usage_db', MonthOf(Today))
               = CountRuns(usage_db'.run_log, MonthOf(Today))
      ]_vars

\* stale as the cleanup is described: a timestamp older than two days, or one
\* that is missing or cannot be parsed
ParseableTimestamp(ts) == ts.form \in {"offset", "Z", "naive"}

DescribedStale(r) ==
    IF ParseableTimestamp(r.timestamp)
    THEN r.timestamp.day < Today - StaleDays
    ELSE TRUE

\* C29: a completed run_reconcile requests deletion of exactly the reservations
\* whose timestamp is older than 2 days or missing or unparseable, never of one
\* with a parseable timestamp within the last 2 days; reservations_removed is
\* their number; without Supabase all counts of the report are 0.
StaleCleanup ==
    [][(usage_db'.reconciles # usage_db.reconciles /\ usage_db'.status = "done") =>
          LET before == usage_db.fly_reservations
              wanted == {before[i].id : i \in {k \in DOMAIN before :
                                                 DescribedStale(before[k])}}
          IN  /\ usage_db.configured =>
                    /\ usage_db'.deleted = wanted
                    /\ usage_db'.report.reservations_removed = Cardinality(wanted)
              /\ ~usage_db.configured =>
                    /\ usage_db'.deleted = {}
                    /\ usage_db'.report.run_log_count = 0
                    /\ usage_db'.report.runs_this_month = 0
                    /\ usage_db'.report.reservations_total = 0
                    /\ usage_db'.report.reservations_removed = 0
      ]_vars

(***************************************************************************)
(* The migration runner of tools/run_migrations.py                         *)
(***************************************************************************)

\* the migration files that can lie in migrations/
MaxMigrations == 3

\* calls of main explored
MaxMigrationRuns == 4

\* the files migrations/*.sql, each named by its rank in the lexical order of
\* the file names
MigrationFiles == 1..MaxMigrations

\* sorted(glob.glob("migrations/*.sql"))
RECURSIVE SortedFiles(_)
SortedFiles(files) ==
    IF files = {} THEN << >>
    ELSE LET first == CHOOSE f \in files : \A g \in files : f <= g
         IN  <<first>> \o SortedFiles(files \ {first})

\* applied_migrations: the ids of fia_migrations
AppliedMigrations(db) == db.recorded

\* the SQL committed without the INSERT into fia_migrations
ApplyMigrationUnrecorded(db, name, failing) ==
    IF name \in failing
    THEN [db EXCEPT !.exc = "psycopg2.Error"]
    ELSE [db EXCEPT !.committed = Append(@, name), !.applied = Append(@, name)]

\* apply_migration: the SQL of the file and the INSERT of its id in one
\* transaction, committed together; an error of either leaves the
\* transaction uncommitted and propagates
ApplyMigration(db, name, failing) ==
    IF name \in failing
    THEN [db EXCEPT !.exc = "psycopg2.Error"]
    ELSE IF name \in db.recorded
    THEN [db EXCEPT !.exc = "UniqueViolation"]
    ELSE [db EXCEPT !.committed = Append(@, name),
                    !.recorded = @ \cup {name},
                    !.applied = Append(@, name)]

\* the loop of main over the sorted files from position i: a file whose id is
\* in `applied` is skipped, the others are applied until one raises
RECURSIVE ApplyFrom(_, _, _, _, _)
ApplyFrom(db, files, applied, failing, i) ==
    IF i > Len(files) THEN db
    ELSE IF files[i] \in applied
    THEN ApplyFrom(db, files, applied, failing, i + 1)
    ELSE LET after == ApplyMigration(db, files[i], failing)
         IN  IF after.exc # NoExc THEN after
             ELSE ApplyFrom(after, files, applied, failing, i + 1)

\* main with the files of `db` and the SQL of the files in `failing` raising:
\* nothing without files; else the table ensured, the ids read once, the
\* loop, and the connection closed, which rolls the open transaction back
MigrationsMain(db, failing) ==
    LET files   == SortedFiles(db.files)
        started == [db EXCEPT !.runs = @ + 1, !.exc = NoExc, !.applied = << >>]
    IN  IF files = << >>
        THEN [started EXCEPT !.status = "no migrations found"]
        ELSE LET ensured == [started EXCEPT !.table_exists = TRUE]
                 after   == ApplyFrom(ensured, files, AppliedMigrations(ensured),
                                      failing, 1)
             IN  [after EXCEPT !.status = IF after.exc = NoExc THEN "done"
                                          ELSE "raised"]

RunMigrations ==
    /\ migrations_db.runs < MaxMigrationRuns
    /\ \E failing \in SUBSET migrations_db.files :
         migrations_db' = MigrationsMain(migrations_db, failing)
    /\ UNCHANGED <<reconciled, scored, anomaly_io, trigger_context, deep_results,
                   qb2_io, cached_config, usage_db>>

\* a database main has not been run against yet, and the files of migrations/
InitMigrations ==
    /\ reconciled = NotCalled
    /\ scored = NotCalled
    /\ anomaly_io = NotCalled
    /\ trigger_context = NotCalled
    /\ deep_results = NotCalled
    /\ qb2_io = NotCalled
    /\ cached_config = NotCalled
    /\ usage_db = NotCalled
    /\ \E files \in SUBSET MigrationFiles :
         migrations_db = [status |-> "ready", exc |-> NoExc, files |-> files,
                          runs |-> 0, table_exists |-> FALSE, recorded |-> {},
                          committed |-> << >>, applied |-> << >>]

NextMigrations == RunMigrations

SpecMigrations == InitMigrations /\ [][NextMigrations]_vars

\* the migrations whose SQL has been committed
CommittedSet(db) == {db.committed[i] : i \in DOMAIN db.committed}

\* C30: over any sequence of runs of main, aborted ones included, the SQL of
\* each migration file is committed at most once, the commits are in ascending
\* file name order, and the ids in fia_migrations are exactly the migrations
\* whose SQL has been committed; a run after a full success applies nothing.
MigrationsAtMostOnce ==
    /\ [](/\ \A i, j \in DOMAIN migrations_db.committed :
                i < j => /\ migrations_db.committed[i] # migrations_db.committed[j]
                         /\ migrations_db.committed[i] < migrations_db.committed[j]
          /\ migrations_db.recorded = CommittedSet(migrations_db))
    /\ [][(migrations_db.status = "done"
              /\ migrations_db'.runs # migrations_db.runs) =>
             /\ migrations_db'.status = "done"
             /\ migrations_db'.applied = << >>
             /\ migrations_db'.committed = migrations_db.committed
             /\ migrations_db'.recorded = migrations_db.recorded
         ]_vars

\* the second run over three files, the first having committed the first file
\* and been aborted by the second: the committed file skipped, the rest applied
MigrationsWitness ==
    /\ migrations_db.status = "done"
    /\ migrations_db.runs = 2
    /\ migrations_db.files = {1, 2, 3}
    /\ migrations_db.applied = <<2, 3>>
    /\ migrations_db.committed = <<1, 2, 3>>
    /\ migrations_db.recorded = {1, 2, 3}

====
